---- MODULE Spec2Model ----
(***************************************************************************)
(* Model of the aggregation engine of SmartMealPlanner:                    *)
(*   mealplanner/nutritional_analysis.py  (NutritionData,                  *)
(*                                          NutritionalAnalyzer)           *)
(*   mealplanner/nutritional_goals.py     (NutritionalGoals,               *)
(*                                          NutritionalGoalManager)        *)
(*   mealplanner/meal_planning.py         (MealPlanner)                    *)
(*   mealplanner/shopping_list.py         (ShoppingListGenerator)          *)
(*   mealplanner/ingredient_management.py (IngredientManager)              *)
(*   mealplanner/cli.py                   (set_nutrition_goals)            *)
(*                                                                         *)
(* Numbers.  Python floats are modelled by exact rationals: a scalar is a  *)
(* record [n, d] with d > 0, a NutritionData is seven numerators over one  *)
(* common denominator.  d = 0 marks the ZeroDivisionError that Python      *)
(* raises on x / 0.  round(x, 1) is modelled by Round1, which returns the  *)
(* nearest number of tenths, ties to even: every dictionary produced by    *)
(* to_dict holds integers counting tenths.                                 *)
(* Optional values: <<>> is None, <<x>> is the value x.                    *)
(*                                                                         *)
(* Specifications.                                                         *)
(*   Spec          a schedule built by schedule_meal and update_meal_plan, *)
(*                 analysed per day and per period                         *)
(*   SpecAnalysis  one analysis of a day or a period over a plans table    *)
(*   SpecGoals     goals built by the constructor, by the template         *)
(*                 function and by the command set_nutrition_goals         *)
(*   SpecCalc      one call of analyze_recipe, analyze_period_nutrition,   *)
(*                 calculate_progress, calculate_macro_ratios,             *)
(*                 generate_recommendations, create_goals_from_template    *)
(*                 or assess_nutritional_balance                           *)
(*   SpecWeekly    one call of analyze_weekly_progress over a plans table  *)
(*   SpecShopping  one shopping list generated from a date range or from   *)
(*                 a list of recipe ids                                    *)
(*   SpecCustom    custom items added to a generated list and to the       *)
(*                 lists made of it                                        *)
(*   SpecNutrition the nutrition of a shopping list, computed after        *)
(*                 ingredients have been deleted                           *)
(*   SpecPlanner   a schedule changed by every operation of MealPlanner,   *)
(*                 schedule_meal without allow_conflicts                   *)
(* Python lists that are shared or changed in place live in heap, a        *)
(* sequence of objects indexed by address.                                 *)
(***************************************************************************)
EXTENDS Integers, Sequences, FiniteSets, TLC

VARIABLES
    recipes,             \* table recipes: recipe id -> Recipe row
    ingredients,         \* table ingredients: ingredient id -> Ingredient row
    recipe_ingredients,  \* association table: set of rows
    plans,               \* table plans: sequence of Plan rows in id order
    goals_file,          \* nutrition_goals.json written by the CLI: <<>> or <<goals>>
    heap,                \* the lists and ShoppingList objects made so far, by address
    call,                \* the last operation invoked, with its arguments
    ret                  \* what that operation returned or raised

vars == <<recipes, ingredients, recipe_ingredients, plans, goals_file, heap, call, ret>>

-----------------------------------------------------------------------------
(* Bounds of the model                                                     *)

MaxLines == 2        \* ingredient lines per recipe
MaxServings == 4     \* requested servings of analyze_recipe
MaxPlans == 2        \* rows of the plans table
MaxDay == 1          \* dates are day numbers 0..MaxDay

-----------------------------------------------------------------------------
(* Optional values and exact arithmetic                                    *)

None == <<>>
Some(x) == <<x>>

Abs(x) == IF x < 0 THEN -x ELSE x
Max(a, b) == IF a >= b THEN a ELSE b

RECURSIVE GCD(_, _)
GCD(a, b) == IF b = 0 THEN a ELSE GCD(b, a % b)

LCM(a, b) == (a * b) \div GCD(a, b)

\* a scalar n/d, in lowest terms with d > 0
Q(n, d) == LET g == GCD(Abs(n), d) IN [n |-> n \div g, d |-> d \div g]
QInt(n) == [n |-> n, d |-> 1]
ZeroDivisionError == [n |-> 0, d |-> 0]
QRaised(a) == a.d = 0

\* a / b on floats: raises when b is zero
QDiv(a, b) ==
    IF QRaised(a) \/ QRaised(b) \/ b.n = 0 THEN ZeroDivisionError
    ELSE IF b.n > 0 THEN Q(a.n * b.d, a.d * b.n)
    ELSE Q(-(a.n * b.d), a.d * (-b.n))
QMul(a, b) ==
    IF QRaised(a) \/ QRaised(b) THEN ZeroDivisionError ELSE Q(a.n * b.n, a.d * b.d)
QAdd(a, b) ==
    IF QRaised(a) \/ QRaised(b) THEN ZeroDivisionError
    ELSE Q(a.n * b.d + b.n * a.d, a.d * b.d)
QSub(a, b) == QAdd(a, [n |-> -b.n, d |-> b.d])
QLe(a, b) == a.n * b.d <= b.n * a.d
QLt(a, b) == a.n * b.d < b.n * a.d
QEq(a, b) == a.n * b.d = b.n * a.d
QMax(a, b) == IF QLe(b, a) THEN a ELSE b

\* round(n/d, 1) counted in tenths, ties to the even tenth (d > 0)
Round1(n, d) ==
    LET q == (10 * n) \div d
        r == 10 * n - q * d
    IN  IF 2 * r < d THEN q
        ELSE IF 2 * r > d THEN q + 1
        ELSE IF q % 2 = 0 THEN q ELSE q + 1
QRound1(a) == Round1(a.n, a.d)

-----------------------------------------------------------------------------
(* NutritionData                                                           *)

Fields == {"calories", "protein", "carbs", "fat", "fiber", "sugar", "sodium"}

\* NutritionData(calories=..., ...) from seven plain numbers
NutritionData(vals) == [v |-> vals, d |-> 1]
\* NutritionData(): every field defaults to 0.0
NutritionData0 == NutritionData([f \in Fields |-> 0])
NDRaised(a) == a.d = 0
NDField(a, f) == IF a.d = 0 THEN ZeroDivisionError ELSE Q(a.v[f], a.d)

\* NutritionData.__add__
NutritionData_add(a, b) ==
    IF a.d = 0 \/ b.d = 0 THEN [v |-> a.v, d |-> 0]
    ELSE LET m == LCM(a.d, b.d)
         IN  [v |-> [f \in Fields |-> a.v[f] * (m \div a.d) + b.v[f] * (m \div b.d)],
              d |-> m]

\* NutritionData.__mul__ by the scalar q
NutritionData_mul(a, q) ==
    IF a.d = 0 \/ q.d = 0 THEN [v |-> a.v, d |-> 0]
    ELSE LET g == GCD(Abs(q.n), a.d)
         IN  [v |-> [f \in Fields |-> a.v[f] * (q.n \div g)],
              d |-> (a.d \div g) * q.d]

\* NutritionData.to_dict: every field rounded to one decimal (in tenths)
to_dict(a) == [f \in Fields |-> Round1(a.v[f], a.d)]
\* NutritionData(**d) of a dictionary produced by to_dict
FromDict(t) == [v |-> t, d |-> 10]

NDEq(a, b) == \A f \in Fields : a.v[f] * b.d = b.v[f] * a.d

-----------------------------------------------------------------------------
(* Rows of the database                                                    *)

\* "x or 0.0" of a nullable Float column
OrZero(o) == IF o = None THEN 0 ELSE o[1]
\* "not x" of a nullable number: None and 0 are both falsy
Falsy(o) == o = None \/ o[1] = 0

MealTypes == {"breakfast", "lunch", "dinner", "snack"}
\* ORDER BY plans.meal_type: the Enum column stores the member names
MealTypeRank(m) ==
    CASE m = "breakfast" -> 1 [] m = "dinner" -> 2 [] m = "lunch" -> 3 [] m = "snack" -> 4


\* Recipe(...): own per-serving nutrition (nullable Float columns) and yield
Recipe(own, servings) == [own |-> own, servings |-> servings]
\* Ingredient(...): nutrition per 100 g (nullable Float columns)
Ingredient(name, per_100g) == [name |-> name, per_100g |-> per_100g]

Vec(c, p, cb, f, fi, su, so) ==
    [calories |-> c, protein |-> p, carbs |-> cb, fat |-> f,
     fiber |-> fi, sugar |-> su, sodium |-> so]

\* Recipe.ingredients / the join of _calculate_from_ingredients: the rows of
\* the association table of this recipe whose ingredient exists
IngredientData(recipe_id) ==
    {row \in recipe_ingredients :
        row.recipe_id = recipe_id /\ row.ingredient_id \in DOMAIN ingredients}

-----------------------------------------------------------------------------
(* NutritionalAnalyzer.analyze_recipe and _calculate_from_ingredients      *)

\* the loop "for ingredient, quantity, unit in ingredient_data"
RECURSIVE LoopIngredientData(_)
LoopIngredientData(rows) ==
    IF rows = {} THEN NutritionData0
    ELSE LET row == CHOOSE r \in rows : TRUE
             ingredient == ingredients[row.ingredient_id]
             total_nutrition == LoopIngredientData(rows \ {row})
         IN  IF row.quantity = 0 \/ Falsy(ingredient.per_100g.calories)
             THEN total_nutrition
             ELSE LET ingredient_nutrition ==
                          NutritionData([f \in Fields |-> OrZero(ingredient.per_100g[f])])
                      scaled_nutrition ==
                          NutritionData_mul(ingredient_nutrition,
                                            QDiv(QInt(row.quantity), QInt(100)))
                  IN  NutritionData_add(total_nutrition, scaled_nutrition)

\* the guard of the final division of _calculate_from_ingredients
ServingsGuard(recipe_servings) == recipe_servings > 0

_calculate_from_ingredients(recipe_id, recipe_servings) ==
    LET ingredient_data == IngredientData(recipe_id)
    IN  IF ingredient_data = {} THEN None
        ELSE LET total_nutrition == LoopIngredientData(ingredient_data)
             IN  IF ServingsGuard(recipe_servings)
                 THEN Some(NutritionData_mul(total_nutrition,
                                             QDiv(QInt(1), QInt(recipe_servings))))
                 ELSE Some(total_nutrition)

\* the body of analyze_recipe once the Recipe row is found
ResolveRecipe(recipe, recipe_id, servings) ==
    LET nutrition == NutritionData([f \in Fields |-> OrZero(recipe.own[f])])
        ingredient_nutrition ==
            IF nutrition.v.calories = 0 /\ IngredientData(recipe_id) # {}
            THEN _calculate_from_ingredients(
                     recipe_id,
                     IF Falsy(recipe.servings) THEN 1 ELSE recipe.servings[1])
            ELSE None
        chosen == IF ingredient_nutrition # None
                  THEN ingredient_nutrition[1] ELSE nutrition
    IN  IF servings # 1 THEN NutritionData_mul(chosen, QInt(servings)) ELSE chosen

\* NutritionalAnalyzer.analyze_recipe: Optional[NutritionData], None when the
\* recipe is not found
analyze_recipe(recipe_id, servings) ==
    IF recipe_id \notin DOMAIN recipes THEN None
    ELSE Some(ResolveRecipe(recipes[recipe_id], recipe_id, servings))

\* what a call hands back: the exception it raised, if any, else its value
\* (an Optional: None, or Some of the returned object)
Returned(value) == [raised |-> "", value |-> value]
Raised(exc) == [raised |-> exc, value |-> None]
\* a call that has been made and has not returned yet
Pending == [raised |-> "pending", value |-> None]
ReturnedND(opt) ==
    IF opt # None /\ NDRaised(opt[1]) THEN Raised("ZeroDivisionError")
    ELSE Returned(opt)

-----------------------------------------------------------------------------
(* Input spaces                                                            *)

MissingId == 999     \* an id no row has

IngredientTable ==
    (1 :> Ingredient("X", Vec(Some(100), Some(10), Some(20), Some(5),
                              Some(2), Some(3), Some(40))))
 @@ (2 :> Ingredient("salt", Vec(Some(0), Some(0), Some(0), Some(0),
                                 Some(0), Some(0), Some(300))))
 @@ (3 :> Ingredient("herb", Vec(None, Some(7), None, None, Some(1), None, None)))

OwnSpace ==
    { Vec(None, None, None, None, None, None, None),
      Vec(Some(0), Some(12), None, Some(1), None, None, Some(5)),
      Vec(Some(250), Some(10), Some(30), Some(8), Some(4), Some(6), Some(120)) }

BaseServingsSpace == {None, Some(-1), Some(0), Some(1), Some(2), Some(3)}

QuantitySpace == {0, 50, 200}

LineSpace(recipe_id) ==
    { [recipe_id |-> recipe_id, ingredient_id |-> i, quantity |-> q, unit |-> "g"] :
        i \in (DOMAIN IngredientTable) \cup {4}, q \in QuantitySpace }

\* (recipe_id, ingredient_id) is the primary key of the association table
LineSets(recipe_id) ==
    { S \in SUBSET LineSpace(recipe_id) :
        /\ Cardinality(S) <= MaxLines
        /\ \A a, b \in S : a.ingredient_id = b.ingredient_id => a = b }

-----------------------------------------------------------------------------
(* MealPlanner: the plans table                                            *)

Dates == 0..MaxDay

\* create_plan: a new Plan row; completed defaults to False
create_plan(id, date, meal_type, recipe_id, servings) ==
    [id |-> id, date |-> date, meal_type |-> meal_type, recipe_id |-> recipe_id,
     servings |-> servings, completed |-> FALSE]

PlanRows == {plans[i] : i \in 1..Len(plans)}
PlanIds == {p.id : p \in PlanRows}
PlanById(plan_id) == CHOOSE p \in PlanRows : p.id = plan_id
\* the autoincrement primary key of the next row
NextPlanId == IF plans = <<>> THEN 1 ELSE plans[Len(plans)].id + 1

\* the conflict query of schedule_meal
SlotTaken(target_date, meal_type) ==
    \E p \in PlanRows : p.date = target_date /\ p.meal_type = meal_type

\* MealPlanner.schedule_meal
schedule_meal(target_date, meal_type, recipe_id, servings, allow_conflicts) ==
    /\ call' = [op |-> "schedule_meal", target_date |-> target_date,
                meal_type |-> meal_type, recipe_id |-> recipe_id,
                servings |-> servings, allow_conflicts |-> allow_conflicts]
    /\ IF recipe_id \notin DOMAIN recipes
       THEN /\ ret' = Raised("MealPlanningError")
            /\ plans' = plans
       ELSE IF ~allow_conflicts /\ SlotTaken(target_date, meal_type)
       THEN /\ ret' = Raised("MealPlanningError")
            /\ plans' = plans
       ELSE LET plan == create_plan(NextPlanId, target_date, meal_type,
                                    recipe_id, servings)
            IN  /\ plans' = Append(plans, plan)
                /\ ret' = Returned(Some(plan))
    /\ UNCHANGED <<heap, recipes, ingredients, recipe_ingredients, goals_file>>

\* the loop "for field, value in updates.items(): setattr(plan, field, value)"
ApplyUpdates(plan, updates) ==
    [f \in DOMAIN plan |-> IF f \in DOMAIN updates THEN updates[f] ELSE plan[f]]

\* MealPlanner.update_meal_plan
update_meal_plan(plan_id, updates) ==
    /\ call' = [op |-> "update_meal_plan", plan_id |-> plan_id, updates |-> updates]
    /\ IF plan_id \notin PlanIds
       THEN /\ ret' = Returned(None)
            /\ plans' = plans
       ELSE LET plan == ApplyUpdates(PlanById(plan_id), updates)
            IN  /\ plans' = [i \in 1..Len(plans) |->
                                IF plans[i].id = plan_id THEN plan ELSE plans[i]]
                /\ ret' = Returned(Some(plan))
    /\ UNCHANGED <<heap, recipes, ingredients, recipe_ingredients, goals_file>>

\* the rows of a date in the order of a query "ORDER BY meal_type": rows of
\* one meal type come in an order the database chooses, given by the ranking
\* tie_break of the plan ids
RECURSIVE OrderRows(_, _)
OrderRows(rows, tie_break) ==
    IF rows = {} THEN <<>>
    ELSE LET first == CHOOSE p \in rows : \A q \in rows :
                          \/ MealTypeRank(p.meal_type) < MealTypeRank(q.meal_type)
                          \/ /\ p.meal_type = q.meal_type
                             /\ tie_break[p.id] <= tie_break[q.id]
         IN  <<first>> \o OrderRows(rows \ {first}, tie_break)

\* MealPlanner.get_plans_for_date
get_plans_for_date(target_date, tie_break) ==
    OrderRows({p \in PlanRows : p.date = target_date}, tie_break)

\* the plans of the date and meal type of a plan
SameSlot(plan_id) ==
    {q \in PlanIds : /\ PlanById(q).date = PlanById(plan_id).date
                     /\ PlanById(q).meal_type = PlanById(plan_id).meal_type}

\* the rankings a query may use to order rows of equal meal type: every plan
\* has a rank among the plans of its date and meal type, in any order
TieBreaks ==
    {t \in [PlanIds -> 1..Cardinality(PlanIds)] :
        \A a \in PlanIds :
            /\ t[a] <= Cardinality(SameSlot(a))
            /\ \A b \in SameSlot(a) : t[a] = t[b] => a = b}

-----------------------------------------------------------------------------
(* NutritionalAnalyzer: plans, days and periods                            *)

\* NutritionalAnalyzer.analyze_meal_plan
analyze_meal_plan(plan_id) ==
    IF plan_id \notin PlanIds THEN None
    ELSE analyze_recipe(PlanById(plan_id).recipe_id, PlanById(plan_id).servings)

\* the loop "for plan in plans" of analyze_daily_nutrition over the first k
\* rows: the running total and the meal_nutrition dictionary
RECURSIVE LoopPlans(_, _)
LoopPlans(rows, k) ==
    IF k = 0 THEN [total_nutrition |-> NutritionData0, meal_nutrition |-> <<>>]
    ELSE LET acc == LoopPlans(rows, k - 1)
             plan == rows[k]
             plan_nutrition == analyze_meal_plan(plan.id)
         IN  IF plan_nutrition = None THEN acc
             ELSE [total_nutrition |->
                       NutritionData_add(acc.total_nutrition, plan_nutrition[1]),
                   meal_nutrition |->
                       [m \in DOMAIN acc.meal_nutrition \cup {plan.meal_type} |->
                           IF m = plan.meal_type THEN to_dict(plan_nutrition[1])
                           ELSE acc.meal_nutrition[m]]]

\* a count of the resolved plans only
MealCountResolved(rows) ==
    Cardinality({i \in 1..Len(rows) : analyze_meal_plan(rows[i].id) # None})

\* "'meal_count': len(plans)"
MealCount(rows) == Len(rows)

\* NutritionalAnalyzer.analyze_daily_nutrition
analyze_daily_nutrition(target_date, tie_break) ==
    LET rows == get_plans_for_date(target_date, tie_break)
        acc == LoopPlans(rows, Len(rows))
    IN  [date |-> target_date,
         total_nutrition |-> to_dict(acc.total_nutrition),
         meal_nutrition |-> acc.meal_nutrition,
         meal_count |-> MealCount(rows),
         completed_meals |-> Cardinality({i \in 1..Len(rows) : rows[i].completed})]

\* a loop that stops one day short of end_date
InPeriodExclusive(current_date, end_date) == current_date < end_date

\* the loop condition of analyze_period_nutrition
InPeriod(current_date, end_date) == current_date <= end_date

\* "for meal_type, nutrition in daily_analysis['meal_nutrition'].items()"
AddMealTypes(meal_type_totals, meal_nutrition) ==
    [m \in DOMAIN meal_type_totals \cup DOMAIN meal_nutrition |->
        IF m \notin DOMAIN meal_nutrition THEN meal_type_totals[m]
        ELSE NutritionData_add(
                 IF m \in DOMAIN meal_type_totals THEN meal_type_totals[m]
                 ELSE NutritionData0,
                 FromDict(meal_nutrition[m]))]

\* one pass of the loop body of analyze_period_nutrition: the day's analysis is
\* appended and added to the totals
AddDay(daily_analysis, rest) ==
    [daily_analyses |-> <<daily_analysis>> \o rest.daily_analyses,
     total_nutrition |->
         NutritionData_add(FromDict(daily_analysis.total_nutrition),
                           rest.total_nutrition),
     meal_type_totals |->
         AddMealTypes(rest.meal_type_totals, daily_analysis.meal_nutrition)]

\* the loop "while current_date <= end_date" of analyze_period_nutrition
RECURSIVE LoopDays(_, _, _)
LoopDays(current_date, end_date, tie_break) ==
    IF ~InPeriod(current_date, end_date)
    THEN [daily_analyses |-> <<>>, total_nutrition |-> NutritionData0,
          meal_type_totals |-> <<>>]
    ELSE AddDay(analyze_daily_nutrition(current_date, tie_break),
                LoopDays(current_date + 1, end_date, tie_break))

\* "(end_date - start_date).days", the end day left out of the count
TotalDaysExclusive(start_date, end_date) == end_date - start_date

\* "total_days = (end_date - start_date).days + 1"
TotalDays(start_date, end_date) == (end_date - start_date) + 1

\* a guard that lets a period of zero days through
DaysGuardNonNegative(total_days) == total_days >= 0

\* the guard of the average of analyze_period_nutrition
DaysGuard(total_days) == total_days > 0

\* "avg_nutrition = total_nutrition * (1.0 / total_days) if total_days > 0
\* else NutritionData()"
AverageOf(total_nutrition, total_days) ==
    IF DaysGuard(total_days)
    THEN NutritionData_mul(total_nutrition, QDiv(QInt(1), QInt(total_days)))
    ELSE NutritionData0

\* the dictionary analyze_period_nutrition returns, unless the average raised
PeriodAnalysis(start_date, end_date, loop, total_days, avg_nutrition) ==
    IF NDRaised(avg_nutrition) THEN Raised("ZeroDivisionError")
    ELSE Returned(Some(
        [start_date |-> start_date,
         end_date |-> end_date,
         total_days |-> total_days,
         total_nutrition |-> to_dict(loop.total_nutrition),
         average_daily_nutrition |-> to_dict(avg_nutrition),
         meal_type_totals |->
             [m \in DOMAIN loop.meal_type_totals |->
                 to_dict(loop.meal_type_totals[m])],
         daily_analyses |-> loop.daily_analyses]))

\* the totals of the loop and their average
PeriodOf(start_date, end_date, loop, total_days) ==
    PeriodAnalysis(start_date, end_date, loop, total_days,
                   AverageOf(loop.total_nutrition, total_days))

\* NutritionalAnalyzer.analyze_period_nutrition
analyze_period_nutrition(start_date, end_date, tie_break) ==
    PeriodOf(start_date, end_date, LoopDays(start_date, end_date, tie_break),
             TotalDays(start_date, end_date))


-----------------------------------------------------------------------------
(* Spec: a catalogue of two recipes, a schedule built by schedule_meal and *)
(* update_meal_plan, analysed per day and per period                       *)

\* recipe 1 carries its own nutrition; recipe 2 yields 3 servings and is
\* derived from 50 g of ingredient 1 and 200 g of ingredient 2
CatalogRecipes ==
    (1 :> Recipe(Vec(Some(250), Some(10), Some(30), Some(8), Some(4), Some(6),
                     Some(120)), Some(2)))
 @@ (2 :> Recipe(Vec(None, None, None, None, None, None, None), Some(3)))

CatalogLines ==
    { [recipe_id |-> 2, ingredient_id |-> 1, quantity |-> 50, unit |-> "g"],
      [recipe_id |-> 2, ingredient_id |-> 2, quantity |-> 200, unit |-> "g"] }

MealTypeSpace == {"breakfast", "dinner"}
\* the (recipe_id, servings) pairs handed to schedule_meal
MealSpace == { <<1, 1>>, <<2, 2>>, <<MissingId, 1>> }
\* the updates dictionaries handed to update_meal_plan: the plan is pointed at
\* a recipe id that has no row
UpdateSpace == { [recipe_id |-> MissingId, servings |-> 1] }

Init ==
    /\ recipes = CatalogRecipes
    /\ ingredients = IngredientTable
    /\ recipe_ingredients = CatalogLines
    /\ plans = <<>>
    /\ goals_file = None
    /\ heap = <<>>
    /\ call = [op |-> "none"]
    /\ ret = Returned(None)

ScheduleMeal ==
    /\ Len(plans) < MaxPlans
    /\ \E target_date \in Dates, meal_type \in MealTypeSpace, meal \in MealSpace,
          allow_conflicts \in BOOLEAN :
           schedule_meal(target_date, meal_type, meal[1], meal[2], allow_conflicts)

UpdateMealPlan ==
    \E plan_id \in PlanIds \cup {MissingId}, updates \in UpdateSpace :
        update_meal_plan(plan_id, updates)

AnalyzeDailyOn(target_date) ==
    \E tie_break \in TieBreaks :
        /\ call' = [op |-> "analyze_daily_nutrition", target_date |-> target_date]
        /\ ret' = Returned(Some(analyze_daily_nutrition(target_date, tie_break)))
        /\ UNCHANGED <<heap, recipes, ingredients, recipe_ingredients, plans, goals_file>>

AnalyzeDaily == \E target_date \in Dates : AnalyzeDailyOn(target_date)

AnalyzePeriod(start_date, end_date) ==
    \E tie_break \in TieBreaks :
        /\ call' = [op |-> "analyze_period_nutrition", start_date |-> start_date,
                    end_date |-> end_date]
        /\ ret' = analyze_period_nutrition(start_date, end_date, tie_break)
        /\ UNCHANGED <<heap, recipes, ingredients, recipe_ingredients, plans, goals_file>>

AnalyzePeriodOfSchedule ==
    \E start_date \in Dates, end_date \in Dates : AnalyzePeriod(start_date, end_date)

Next == ScheduleMeal \/ UpdateMealPlan \/ AnalyzeDaily \/ AnalyzePeriodOfSchedule

Spec == Init /\ [][Next]_vars


-----------------------------------------------------------------------------
(* Properties of analyze_daily_nutrition and analyze_period_nutrition      *)

\* the plans of a date, those of them whose recipe has a row, and the rest
EntriesOn(d) == {p \in PlanRows : p.date = d}
Resolvable(p) == p.recipe_id \in DOMAIN recipes
ResolvableOn(d) == {p \in EntriesOn(d) : Resolvable(p)}

\* the exact sum of the resolved nutrition of a set of resolvable plans
RECURSIVE SumResolved(_)
SumResolved(S) ==
    IF S = {} THEN NutritionData0
    ELSE LET p == CHOOSE x \in S : TRUE
         IN  NutritionData_add(analyze_recipe(p.recipe_id, p.servings)[1],
                               SumResolved(S \ {p}))

IsDaily == call.op = "analyze_daily_nutrition" /\ ret.raised = ""
IsPeriod == call.op = "analyze_period_nutrition" /\ ret.raised = ""

\* C2: in analyze_daily_nutrition the bucket of every meal slot is the sum of
\* the resolved nutrition of all the entries of that slot on the date
\* (rounded to one decimal as every returned dictionary is), also when
\* several entries share the slot.
C2_SlotBucketSumsAllEntries ==
    IsDaily =>
        \A m \in MealTypes :
            LET S == {p \in ResolvableOn(call.target_date) : p.meal_type = m}
            IN  S # {} =>
                    /\ m \in DOMAIN ret.value[1].meal_nutrition
                    /\ ret.value[1].meal_nutrition[m] = to_dict(SumResolved(S))

\* C4: an entry whose recipe has no row resolves to None, raises nothing,
\* adds nothing to the day's total nor to any bucket, creates no bucket of
\* its own, and is counted in meal_count.
C4_UnresolvedEntriesAreSoft ==
    IsDaily =>
        LET E == EntriesOn(call.target_date)
            R == ResolvableOn(call.target_date)
        IN  /\ ret.raised = ""
            /\ \A p \in E \ R : analyze_meal_plan(p.id) = None
            /\ ret.value[1].meal_count = Cardinality(E)
            /\ ret.value[1].total_nutrition = to_dict(SumResolved(R))
            /\ DOMAIN ret.value[1].meal_nutrition = {p.meal_type : p \in R}
            /\ \A m \in DOMAIN ret.value[1].meal_nutrition :
                   \E p \in R :
                       /\ p.meal_type = m
                       /\ ret.value[1].meal_nutrition[m] =
                              to_dict(analyze_recipe(p.recipe_id, p.servings)[1])

\* a day analysed with an unresolvable entry next to a resolvable one
C4_Witness ==
    /\ IsDaily
    /\ ResolvableOn(call.target_date) # {}
    /\ EntriesOn(call.target_date) \ ResolvableOn(call.target_date) # {}
    /\ ret.value[1].meal_count = 2
    /\ ret.value[1].total_nutrition.calories > 0

\* the total of the period [a, b], in tenths
PeriodTotal(a, b, tie_break) ==
    analyze_period_nutrition(a, b, tie_break).value[1].total_nutrition

\* the sum of the totals of the sub-ranges that the cut points split [a, b]
\* into: a cut at k ends one sub-range at k and starts the next at k + 1
RECURSIVE SumOfParts(_, _, _, _)
SumOfParts(a, b, cuts, tie_break) ==
    IF cuts = {} THEN PeriodTotal(a, b, tie_break)
    ELSE LET k == CHOOSE x \in cuts : \A y \in cuts : x <= y
             head == PeriodTotal(a, k, tie_break)
             tail == SumOfParts(k + 1, b, cuts \ {k}, tie_break)
         IN  [f \in Fields |-> head[f] + tail[f]]

\* C6: for every split of [start, end] into contiguous sub-ranges the
\* component-wise sum of the totals of the sub-ranges is the total of the
\* whole range.
C6_PeriodAdditivity ==
    (IsPeriod /\ call.start_date <= call.end_date) =>
        \A cuts \in SUBSET (call.start_date .. (call.end_date - 1)),
           tie_break \in TieBreaks :
            SumOfParts(call.start_date, call.end_date, cuts, tie_break)
                = ret.value[1].total_nutrition

\* a period of several days with resolved meals on two of its days
C6_Witness ==
    /\ IsPeriod
    /\ call.start_date < call.end_date
    /\ \E d1, d2 \in call.start_date .. call.end_date :
           d1 # d2 /\ ResolvableOn(d1) # {} /\ ResolvableOn(d2) # {}
    /\ ret.value[1].total_nutrition.calories > 0

\* C7 as stated: total_days = (end - start) + 1 and average_daily times
\* total_days equals the total exactly, for each of the seven components.
C7_AverageTimesDaysIsTotal ==
    (IsPeriod /\ call.start_date <= call.end_date) =>
        /\ ret.value[1].total_days = (call.end_date - call.start_date) + 1
        /\ \A f \in Fields :
               ret.value[1].average_daily_nutrition[f] * ret.value[1].total_days
                   = ret.value[1].total_nutrition[f]

\* C7: total_days = (end - start) + 1, one daily analysis per day
\* (days without entries included), and average_daily times total_days is
\* within 0.05 * total_days of the total for each component (the average is
\* rounded to one decimal after the division).
C7_AverageWithinRounding ==
    (IsPeriod /\ call.start_date <= call.end_date) =>
        /\ ret.value[1].total_days = (call.end_date - call.start_date) + 1
        /\ Len(ret.value[1].daily_analyses) = ret.value[1].total_days
        /\ \A f \in Fields :
               2 * Abs(ret.value[1].average_daily_nutrition[f] * ret.value[1].total_days
                       - ret.value[1].total_nutrition[f])
                   <= ret.value[1].total_days

\* a period of several days, one of them empty, whose average is not exact
C7_Witness ==
    /\ IsPeriod
    /\ call.start_date < call.end_date
    /\ \E d \in call.start_date .. call.end_date : EntriesOn(d) = {}
    /\ ret.value[1].average_daily_nutrition.calories * ret.value[1].total_days
           # ret.value[1].total_nutrition.calories


-----------------------------------------------------------------------------
(* NutritionalGoals and NutritionalGoalManager                             *)

GoalTypes == {"weight_loss", "weight_gain", "maintenance", "muscle_gain",
              "endurance", "custom"}

RatioKeys == {"protein_ratio", "carbs_ratio", "fat_ratio"}

\* the dataclass NutritionalGoals: the generated __init__ stores its
\* arguments and checks nothing; every numeric field is an Optional scalar
NutritionalGoals(goal_type, daily_calories, daily_protein, daily_carbs, daily_fat, daily_fiber, daily_sodium_max, protein_ratio, carbs_ratio, fat_ratio) ==
    [goal_type |-> goal_type, daily_calories |-> daily_calories,
     daily_protein |-> daily_protein, daily_carbs |-> daily_carbs,
     daily_fat |-> daily_fat, daily_fiber |-> daily_fiber,
     daily_sodium_max |-> daily_sodium_max, protein_ratio |-> protein_ratio,
     carbs_ratio |-> carbs_ratio, fat_ratio |-> fat_ratio]

\* NutritionalGoalManager.GOAL_TEMPLATES
GOAL_TEMPLATES ==
    [weight_loss |-> [protein_ratio |-> 30, carbs_ratio |-> 40, fat_ratio |-> 30,
                      daily_fiber |-> 30, daily_sodium_max |-> 2000],
     weight_gain |-> [protein_ratio |-> 25, carbs_ratio |-> 50, fat_ratio |-> 25,
                      daily_fiber |-> 25, daily_sodium_max |-> 2300],
     maintenance |-> [protein_ratio |-> 20, carbs_ratio |-> 50, fat_ratio |-> 30,
                      daily_fiber |-> 25, daily_sodium_max |-> 2300],
     muscle_gain |-> [protein_ratio |-> 35, carbs_ratio |-> 40, fat_ratio |-> 25,
                      daily_fiber |-> 25, daily_sodium_max |-> 2300],
     endurance |-> [protein_ratio |-> 15, carbs_ratio |-> 60, fat_ratio |-> 25,
                    daily_fiber |-> 30, daily_sodium_max |-> 2300]]

\* the fallbacks of "template.get(key, default)" in create_goals_from_template
TemplateDefaults ==
    [protein_ratio |-> 20, carbs_ratio |-> 50, fat_ratio |-> 30,
     daily_fiber |-> 25, daily_sodium_max |-> 2300]

\* overrides.get(key, template.get(key, default)); overrides maps keys to scalars
TemplateValue(goal_type, overrides, key) ==
    IF key \in DOMAIN overrides THEN overrides[key]
    ELSE IF goal_type \in DOMAIN GOAL_TEMPLATES
         THEN QInt(GOAL_TEMPLATES[goal_type][key])
         ELSE QInt(TemplateDefaults[key])

\* a lookup that never finds the key
OverrideIgnored(overrides, key, derived) == derived

\* overrides.get(key, derived)
OverrideOr(overrides, key, derived) ==
    IF key \in DOMAIN overrides THEN overrides[key] ELSE derived

\* NutritionalGoalManager.create_goals_from_template
create_goals_from_template(goal_type, daily_calories, overrides) ==
    LET protein_ratio == TemplateValue(goal_type, overrides, "protein_ratio")
        carbs_ratio == TemplateValue(goal_type, overrides, "carbs_ratio")
        fat_ratio == TemplateValue(goal_type, overrides, "fat_ratio")
        daily_protein ==
            QDiv(QDiv(QMul(daily_calories, protein_ratio), QInt(100)), QInt(4))
        daily_carbs ==
            QDiv(QDiv(QMul(daily_calories, carbs_ratio), QInt(100)), QInt(4))
        daily_fat ==
            QDiv(QDiv(QMul(daily_calories, fat_ratio), QInt(100)), QInt(9))
    IN  NutritionalGoals(
            goal_type,
            Some(daily_calories),
            Some(OverrideOr(overrides, "daily_protein", daily_protein)),
            Some(OverrideOr(overrides, "daily_carbs", daily_carbs)),
            Some(OverrideOr(overrides, "daily_fat", daily_fat)),
            Some(TemplateValue(goal_type, overrides, "daily_fiber")),
            Some(TemplateValue(goal_type, overrides, "daily_sodium_max")),
            Some(protein_ratio), Some(carbs_ratio), Some(fat_ratio))

\* a check with the tolerance 1 in place of 0.1
RatioSumRejectedAboveOne(overrides, float_excess) ==
    /\ RatioKeys \subseteq DOMAIN overrides
    /\ LET total_ratio == QAdd(QAdd(overrides["protein_ratio"],
                                    overrides["carbs_ratio"]),
                               overrides["fat_ratio"])
       IN  \/ QLt(total_ratio, QInt(99))
           \/ QLt(QInt(101), total_ratio)

\* the check of set_nutrition_goals, "abs(total_ratio - 100) > 0.1", made only
\* when all three ratios are among the overrides.  When the exact sum is at
\* distance 0.1 from 100 the rounding of the float sum decides
\* (33.3 + 33.3 + 33.3 is 99.89999999999999): float_excess is that outcome.
RatioSumRejected(overrides, float_excess) ==
    /\ RatioKeys \subseteq DOMAIN overrides
    /\ LET total_ratio == QAdd(QAdd(overrides["protein_ratio"],
                                    overrides["carbs_ratio"]),
                               overrides["fat_ratio"])
           distance == QSub(total_ratio, QInt(100))
           abs_distance == IF distance.n < 0 THEN QSub(QInt(0), distance)
                           ELSE distance
       IN  \/ QLt(Q(1, 10), abs_distance)
           \/ QEq(Q(1, 10), abs_distance) /\ float_excess

\* the overrides dictionary of set_nutrition_goals: the options that are not None
CliOverrides(protein_ratio, carbs_ratio, fat_ratio, daily_fiber, daily_sodium_max) ==
    LET opts == [protein_ratio |-> protein_ratio, carbs_ratio |-> carbs_ratio,
                 fat_ratio |-> fat_ratio, daily_fiber |-> daily_fiber,
                 daily_sodium_max |-> daily_sodium_max]
    IN  [k \in {x \in DOMAIN opts : opts[x] # None} |-> opts[k][1]]

\* cli.set_nutrition_goals: exits with code 1 on an unknown goal type or a
\* rejected ratio sum, else creates the goals and writes nutrition_goals.json
set_nutrition_goals(goal_type, daily_calories, protein_ratio, carbs_ratio, fat_ratio, daily_fiber, daily_sodium_max, float_excess) ==
    LET overrides == CliOverrides(protein_ratio, carbs_ratio, fat_ratio,
                                  daily_fiber, daily_sodium_max)
    IN  /\ call' = [op |-> "set_nutrition_goals", goal_type |-> goal_type,
                    daily_calories |-> daily_calories,
                    ratios |-> <<protein_ratio, carbs_ratio, fat_ratio>>,
                    daily_fiber |-> daily_fiber,
                    daily_sodium_max |-> daily_sodium_max]
        /\ IF goal_type \notin GoalTypes
           THEN /\ ret' = Raised("Exit")
                /\ goals_file' = goals_file
           ELSE IF RatioSumRejected(overrides, float_excess)
           THEN /\ ret' = Raised("Exit")
                /\ goals_file' = goals_file
           ELSE LET goals == create_goals_from_template(goal_type, daily_calories,
                                                        overrides)
                IN  /\ goals_file' = Some(goals)
                    /\ ret' = Returned(None)
        /\ UNCHANGED <<heap, recipes, ingredients, recipe_ingredients, plans>>


-----------------------------------------------------------------------------
(* NutritionalGoalManager.calculate_progress and _get_status               *)

\* "a <= x <= b" for a scalar x and integers a, b
QBetween(a, x, b) == QLe(QInt(a), x) /\ QLe(x, QInt(b))

\* a classification whose 'excellent' band is open at both ends
_get_status_open_band(percentage, nutrient) ==
    IF nutrient = "calories"
    THEN IF QLt(QInt(90), percentage) /\ QLt(percentage, QInt(110)) THEN "excellent"
         ELSE IF QBetween(80, percentage, 120) THEN "good"
         ELSE IF QLt(percentage, QInt(80)) THEN "low"
         ELSE "high"
    ELSE IF QBetween(80, percentage, 120) THEN "good"
         ELSE IF QLt(percentage, QInt(80)) THEN "low"
         ELSE "high"

\* NutritionalGoalManager._get_status
_get_status(percentage, nutrient) ==
    IF nutrient = "calories"
    THEN IF QBetween(90, percentage, 110) THEN "excellent"
         ELSE IF QBetween(80, percentage, 120) THEN "good"
         ELSE IF QLt(percentage, QInt(80)) THEN "low"
         ELSE "high"
    ELSE IF QBetween(80, percentage, 120) THEN "good"
         ELSE IF QLt(percentage, QInt(80)) THEN "low"
         ELSE "high"

\* the guard "if target > 0 else 0" of both percentages of calculate_progress
TargetGuard(target) == target.n > 0

\* "(actual / target * 100) if target > 0 else 0"
Percentage(actual, target) ==
    IF TargetGuard(target) THEN QMul(QDiv(actual, target), QInt(100)) ELSE QInt(0)

\* the nutrients list of calculate_progress: name, target, actual
Nutrients == <<"calories", "protein", "carbs", "fat", "fiber">>
TargetOf(goals, nutrient) ==
    CASE nutrient = "calories" -> goals.daily_calories
      [] nutrient = "protein" -> goals.daily_protein
      [] nutrient = "carbs" -> goals.daily_carbs
      [] nutrient = "fat" -> goals.daily_fat
      [] nutrient = "fiber" -> goals.daily_fiber

\* a sodium status that is 'over' once the maximum is reached
SodiumStatusStrict(sodium_percentage) ==
    IF QLt(sodium_percentage, QInt(100)) THEN "good" ELSE "over"

\* sodium status of calculate_progress
SodiumStatus(sodium_percentage) ==
    IF QLe(sodium_percentage, QInt(100)) THEN "good" ELSE "over"

\* the progress entry of one nutrient with a target; numbers rounded to one
\* decimal are in tenths, the status is taken from the unrounded percentage
NutrientEntry(nutrient, target, actual) ==
    LET percentage == Percentage(actual, target)
    IN  [target |-> QRound1(target),
         actual |-> QRound1(actual),
         percentage |-> QRound1(percentage),
         remaining |-> QRound1(QMax(QInt(0), QSub(target, actual))),
         status |-> _get_status(percentage, nutrient)]

\* the progress entry of sodium; over_limit is not rounded
SodiumEntry(daily_sodium_max, actual) ==
    LET sodium_percentage == Percentage(actual, daily_sodium_max)
    IN  [target_max |-> QRound1(daily_sodium_max),
         actual |-> QRound1(actual),
         percentage |-> QRound1(sodium_percentage),
         over_limit |-> QMax(QInt(0), QSub(actual, daily_sodium_max)),
         status |-> SodiumStatus(sodium_percentage)]

\* the progress dictionary: one entry per nutrient whose target is not None
ProgressDict(goals, actual_nutrition) ==
    LET set == {Nutrients[i] : i \in 1..Len(Nutrients)}
        with_target == {x \in set : TargetOf(goals, x) # None}
        keys == with_target \cup
                (IF goals.daily_sodium_max # None THEN {"sodium"} ELSE {})
    IN  [k \in keys |->
            IF k = "sodium"
            THEN SodiumEntry(goals.daily_sodium_max[1],
                             NDField(actual_nutrition, "sodium"))
            ELSE NutrientEntry(k, TargetOf(goals, k)[1],
                               NDField(actual_nutrition, k))]

\* a score whose overshoot penalty is that of sodium for every nutrient
ScoreFromCeiling(nutrient, percentage10) ==
    IF percentage10 <= 1000 THEN QInt(100)
    ELSE QMax(QInt(0), Q(2000 - percentage10, 10))

\* the score of one entry, from its rounded percentage (given in tenths)
Score(nutrient, percentage10) ==
    IF nutrient = "sodium"
    THEN IF percentage10 <= 1000 THEN QInt(100)
         ELSE QMax(QInt(0), Q(2000 - percentage10, 10))
    ELSE IF 800 <= percentage10 /\ percentage10 <= 1200 THEN QInt(100)
         ELSE IF percentage10 < 800 THEN Q(percentage10 * 125, 1000)
         ELSE QMax(QInt(0), Q(2400 - percentage10, 10))

RECURSIVE SumScores(_, _)
SumScores(progress, keys) ==
    IF keys = {} THEN QInt(0)
    ELSE LET k == CHOOSE x \in keys : TRUE
         IN  QAdd(Score(k, progress[k].percentage), SumScores(progress, keys \ {k}))

\* does a percentage of calculate_progress divide by zero
ProgressRaises(goals, actual_nutrition) ==
    \/ \E i \in 1..Len(Nutrients) :
           /\ TargetOf(goals, Nutrients[i]) # None
           /\ QRaised(Percentage(NDField(actual_nutrition, Nutrients[i]),
                                 TargetOf(goals, Nutrients[i])[1]))
    \/ /\ goals.daily_sodium_max # None
       /\ QRaised(Percentage(NDField(actual_nutrition, "sodium"),
                             goals.daily_sodium_max[1]))

\* NutritionalGoalManager.calculate_progress
calculate_progress(goals, actual_nutrition) ==
    IF ProgressRaises(goals, actual_nutrition) THEN Raised("ZeroDivisionError")
    ELSE LET progress == ProgressDict(goals, actual_nutrition)
             n == Cardinality(DOMAIN progress)
             overall_score ==
                 IF n > 0 THEN QDiv(SumScores(progress, DOMAIN progress), QInt(n))
                 ELSE QInt(0)
         IN  Returned(Some([progress |-> progress,
                            overall_score |-> QRound1(overall_score),
                            goal_type |-> goals.goal_type]))

-----------------------------------------------------------------------------
(* NutritionalAnalyzer.calculate_macro_ratios                              *)

\* the guard "if total_macro_calories == 0"
NoMacroCalories(total_macro_calories) == total_macro_calories = 0

\* a share left as a fraction of 1
RatioOfUnscaled(macro_calories, total_macro_calories) ==
    QDiv(QInt(macro_calories), QInt(total_macro_calories))

\* round((x / total) * 100, 1) in tenths; the common denominator cancels
RatioOf(macro_calories, total_macro_calories) ==
    QMul(QDiv(QInt(macro_calories), QInt(total_macro_calories)), QInt(100))

calculate_macro_ratios(nutrition) ==
    LET protein_calories == nutrition.v.protein * 4
        carb_calories == nutrition.v.carbs * 4
        fat_calories == nutrition.v.fat * 9
        total_macro_calories == protein_calories + carb_calories + fat_calories
    IN  IF NoMacroCalories(total_macro_calories)
        THEN Returned(Some([protein |-> 0, carbs |-> 0, fat |-> 0]))
        ELSE IF QRaised(RatioOf(protein_calories, total_macro_calories))
        THEN Raised("ZeroDivisionError")
        ELSE Returned(Some(
                 [protein |-> QRound1(RatioOf(protein_calories, total_macro_calories)),
                  carbs |-> QRound1(RatioOf(carb_calories, total_macro_calories)),
                  fat |-> QRound1(RatioOf(fat_calories, total_macro_calories))]))


-----------------------------------------------------------------------------
(* SpecGoals: goals built by the constructor, by the template function and *)
(* by the command set_nutrition_goals                                      *)

\* (protein_ratio, carbs_ratio, fat_ratio) as a caller supplies them
RatioTriples ==
    { <<None, None, None>>,
      <<Some(QInt(30)), None, None>>,
      <<Some(QInt(30)), Some(QInt(30)), None>>,
      <<Some(QInt(30)), Some(QInt(40)), Some(QInt(30))>>,
      <<Some(QInt(30)), Some(QInt(30)), Some(QInt(30))>>,
      <<Some(QInt(50)), Some(QInt(30)), Some(QInt(30))>>,
      <<Some(Q(333, 10)), Some(Q(333, 10)), Some(Q(334, 10))>>,
      <<Some(Q(333, 10)), Some(Q(333, 10)), Some(Q(333, 10))>>,
      <<Some(Q(333, 10)), Some(Q(333, 10)), Some(Q(332, 10))>>,
      <<Some(Q(334, 10)), Some(Q(334, 10)), Some(Q(333, 10))>>,
      <<Some(Q(334, 10)), Some(Q(334, 10)), Some(Q(334, 10))>> }

CaloriesSpace == { QInt(2000) }

\* keyword overrides of create_goals_from_template besides the ratios
ExtraOverrides ==
    { <<>>,
      [daily_protein |-> QInt(120), daily_fiber |-> QInt(35),
       daily_sodium_max |-> QInt(1800)] }

\* the keyword arguments made of a ratio triple and further overrides
OverridesOf(triple, extra) ==
    LET ratios == [protein_ratio |-> triple[1], carbs_ratio |-> triple[2],
                   fat_ratio |-> triple[3]]
        given == {k \in RatioKeys : ratios[k] # None}
    IN  [k \in given \cup DOMAIN extra |->
            IF k \in given THEN ratios[k][1] ELSE extra[k]]

ConstructGoals ==
    \E goal_type \in {"weight_loss", "custom"},
       daily_calories \in {None} \cup {Some(c) : c \in CaloriesSpace},
       triple \in RatioTriples :
        /\ call' = [op |-> "NutritionalGoals", goal_type |-> goal_type,
                    daily_calories |-> daily_calories, ratios |-> triple]
        /\ ret' = Returned(Some(NutritionalGoals(
                      goal_type, daily_calories, None, None, None, None, None,
                      triple[1], triple[2], triple[3])))
        /\ UNCHANGED <<heap, recipes, ingredients, recipe_ingredients, plans, goals_file>>

CreateGoalsFromTemplate ==
    \E goal_type \in {"weight_loss", "custom"}, daily_calories \in CaloriesSpace,
       triple \in RatioTriples, extra \in ExtraOverrides :
        /\ call' = [op |-> "create_goals_from_template", goal_type |-> goal_type,
                    daily_calories |-> daily_calories, ratios |-> triple,
                    extra |-> extra]
        /\ ret' = Returned(Some(create_goals_from_template(
                      goal_type, daily_calories, OverridesOf(triple, extra))))
        /\ UNCHANGED <<heap, recipes, ingredients, recipe_ingredients, plans, goals_file>>

SetNutritionGoals ==
    \E goal_type \in {"weight_loss", "keto"},
       daily_calories \in CaloriesSpace, triple \in RatioTriples,
       daily_fiber \in {None, Some(QInt(35))}, float_excess \in BOOLEAN :
        set_nutrition_goals(goal_type, daily_calories, triple[1], triple[2],
                            triple[3], daily_fiber, None, float_excess)

NextGoals == ConstructGoals \/ CreateGoalsFromTemplate \/ SetNutritionGoals

SpecGoals == Init /\ [][NextGoals]_vars

-----------------------------------------------------------------------------
(* NutritionalGoalManager.generate_recommendations                         *)

\* "{x:.0f}": the nearest integer, a tie going to the even one
Format0(a) ==
    LET q == a.n \div a.d
        r == a.n - q * a.d
    IN  IF 2 * r < a.d THEN q
        ELSE IF 2 * r > a.d THEN q + 1
        ELSE IF q % 2 = 0 THEN q ELSE q + 1

\* "'g' if nutrient != 'calories' else ' calories'"
UnitOf(nutrient) == IF nutrient # "calories" THEN "g" ELSE " calories"

\* "(goals.daily_x or 0)"
TargetOrZero(target) == IF target = None THEN QInt(0) ELSE target[1]

\* "progress['progress'].items()": the entries in the order of insertion
ProgressItems(progress) ==
    SelectSeq(Nutrients \o <<"sodium">>, LAMBDA k : k \in DOMAIN progress)

\* the body of the loop over the progress entries: the recommendations, none
\* or one, of an entry; a text is held as its template and its numbers
NutrientRecommendation(nutrient, data) ==
    IF nutrient = "sodium"
    THEN IF data.status = "over"
         THEN <<[text |-> "Reduce sodium intake by {}mg. Try using herbs and spices instead of salt.",
                 nutrient |-> nutrient,
                 amount |-> Format0(data.over_limit)]>>
         ELSE <<>>
    ELSE IF data.status = "low"
    THEN <<[text |-> "Increase {} intake by {}{}. Current: {}, Target: {}",
            nutrient |-> nutrient,
            amount |-> Format0(Q(data.remaining, 10)),
            unit |-> UnitOf(nutrient),
            current |-> Format0(Q(data.actual, 10)),
            target |-> Format0(Q(data.target, 10))]>>
    ELSE IF data.status = "high"
    THEN <<[text |-> "Consider reducing {} intake by {}{}. Current: {}, Target: {}",
            nutrient |-> nutrient,
            amount |-> Format0(Q(data.actual - data.target, 10)),
            unit |-> UnitOf(nutrient),
            current |-> Format0(Q(data.actual, 10)),
            target |-> Format0(Q(data.target, 10))]>>
    ELSE <<>>

\* "for nutrient, data in progress['progress'].items()"
RECURSIVE LoopProgressItems(_, _)
LoopProgressItems(progress, items) ==
    IF items = <<>> THEN <<>>
    ELSE NutrientRecommendation(Head(items), progress[Head(items)])
             \o LoopProgressItems(progress, Tail(items))

\* one goal-specific recommendation, appended when its condition holds
Tip(condition, text) == IF condition THEN <<[text |-> text]>> ELSE <<>>

\* the goal-specific recommendations
GoalRecommendations(goals, actual_nutrition) ==
    IF goals.goal_type = "weight_loss"
    THEN Tip(QLt(TargetOrZero(goals.daily_calories),
                 NDField(actual_nutrition, "calories")),
             "Focus on portion control and choose lower-calorie, nutrient-dense foods.")
         \o Tip(QLt(NDField(actual_nutrition, "fiber"), QInt(25)),
                "Increase fiber intake with vegetables, fruits, and whole grains to help with satiety.")
    ELSE IF goals.goal_type = "muscle_gain"
    THEN Tip(QLt(NDField(actual_nutrition, "protein"),
                 TargetOrZero(goals.daily_protein)),
             "Include protein-rich foods like lean meats, eggs, dairy, or legumes in each meal.")
         \o Tip(QLt(NDField(actual_nutrition, "calories"),
                    TargetOrZero(goals.daily_calories)),
                "Add healthy calorie-dense foods like nuts, avocados, and whole grains.")
    ELSE IF goals.goal_type = "endurance"
    THEN Tip(QLt(NDField(actual_nutrition, "carbs"),
                 TargetOrZero(goals.daily_carbs)),
             "Include complex carbohydrates like oats, quinoa, and sweet potatoes for sustained energy.")
    ELSE <<>>

\* a limit that keeps the last five
LastFive(recommendations) ==
    SubSeq(recommendations, Max(1, Len(recommendations) - 4), Len(recommendations))

\* "recommendations[:5]"
TopFive(recommendations) ==
    SubSeq(recommendations, 1, IF Len(recommendations) < 5 THEN Len(recommendations) ELSE 5)

\* the recommendations of a progress, before the limit
Recommendations(goals, actual_nutrition, progress) ==
    LoopProgressItems(progress, ProgressItems(progress))
        \o GoalRecommendations(goals, actual_nutrition)

\* NutritionalGoalManager.generate_recommendations
generate_recommendations(goals, actual_nutrition) ==
    IF ProgressRaises(goals, actual_nutrition) THEN Raised("ZeroDivisionError")
    ELSE Returned(Some(TopFive(
             Recommendations(goals, actual_nutrition,
                 calculate_progress(goals, actual_nutrition).value[1].progress))))

-----------------------------------------------------------------------------
(* NutritionalAnalyzer.assess_nutritional_balance                          *)

\* "healthy_ranges": per cent of the calories of the three macros
healthy_ranges ==
    [protein |-> <<10, 35>>, carbs |-> <<45, 65>>, fat |-> <<20, 35>>]

\* a range without its end points
InRangeOpen(ratio10, min_range, max_range) ==
    min_range * 10 < ratio10 /\ ratio10 < max_range * 10

\* "min_range <= ratio <= max_range", the ratio in tenths
InRange(ratio10, min_range, max_range) ==
    min_range * 10 <= ratio10 /\ ratio10 <= max_range * 10

\* the body of the loop over the macro ratios: the score gained and the
\* recommendation appended; a text is held as its template and its numbers
AssessMacro(macro, ratio10) ==
    LET min_range == healthy_ranges[macro][1]
        max_range == healthy_ranges[macro][2]
    IN  IF InRange(ratio10, min_range, max_range)
        THEN [score |-> 1, recommendations |-> <<>>]
        ELSE IF ratio10 < min_range * 10
        THEN [score |-> 0,
              recommendations |->
                  <<[text |-> "Consider increasing {} intake (currently {}%, recommended {}-{}%)",
                     nutrient |-> macro, currently |-> Q(ratio10, 10),
                     min_range |-> min_range, max_range |-> max_range]>>]
        ELSE [score |-> 0,
              recommendations |->
                  <<[text |-> "Consider reducing {} intake (currently {}%, recommended {}-{}%)",
                     nutrient |-> macro, currently |-> Q(ratio10, 10),
                     min_range |-> min_range, max_range |-> max_range]>>]

\* "for macro, ratio in macro_ratios.items()"
RECURSIVE LoopMacros(_, _)
LoopMacros(macro_ratios, macros) ==
    IF macros = <<>> THEN [score |-> 0, recommendations |-> <<>>]
    ELSE LET first == AssessMacro(Head(macros), macro_ratios[Head(macros)])
             rest == LoopMacros(macro_ratios, Tail(macros))
         IN  [score |-> first.score + rest.score,
              recommendations |-> first.recommendations \o rest.recommendations]

\* the fiber and sodium assessments
FiberAndSodium(nutrition) ==
    (IF QLt(NDField(nutrition, "fiber"), QInt(25))
     THEN <<[text |-> "Consider increasing fiber intake (currently {}g, recommended 25-35g)",
             nutrient |-> "fiber", currently |-> NDField(nutrition, "fiber")]>>
     ELSE <<>>)
    \o (IF QLt(QInt(2300), NDField(nutrition, "sodium"))
        THEN <<[text |-> "Consider reducing sodium intake (currently {}mg, recommended <2300mg)",
                nutrient |-> "sodium", currently |-> NDField(nutrition, "sodium")]>>
        ELSE <<>>)

\* the dictionary assess_nutritional_balance returns
BalanceOf(nutrition, macro_ratios, loop) ==
    [macro_ratios |-> macro_ratios,
     balance_score |-> loop.score,
     max_score |-> 3,
     balance_percentage |-> QRound1(QMul(Q(loop.score, 3), QInt(100))),
     recommendations |-> loop.recommendations \o FiberAndSodium(nutrition)]

\* NutritionalAnalyzer.assess_nutritional_balance
assess_nutritional_balance(nutrition) ==
    IF calculate_macro_ratios(nutrition).raised # ""
    THEN calculate_macro_ratios(nutrition)
    ELSE Returned(Some(BalanceOf(nutrition,
             calculate_macro_ratios(nutrition).value[1],
             LoopMacros(calculate_macro_ratios(nutrition).value[1],
                        <<"protein", "carbs", "fat">>))))

-----------------------------------------------------------------------------
(* ShoppingListGenerator: the rows it reads and the objects it makes       *)

\* the strings that name ingredients, categories and recipes, in the order of
\* Python's "<" on str (code points: the capitals before the small letters)
StringOrder ==
    <<"Apple", "Bakery", "Dairy", "Milk", "Napkins", "Pancakes", "Porridge",
      "Salt", "Water", "ZZZ", "fruit">>
StrRank(s) == CHOOSE i \in 1..Len(StringOrder) : StringOrder[i] = s

\* "a < b" on tuples of strings
KeyLess(a, b) ==
    \E i \in 1..Len(a) :
        /\ \A j \in 1..(i - 1) : a[j] = b[j]
        /\ StrRank(a[i]) < StrRank(b[i])

\* list.sort(key=...): stable, ascending by key; keys[i] is the key of xs[i]
SortedBy(xs, keys) ==
    LET Place(i) == 1 + Cardinality({j \in 1..Len(xs) :
                                        \/ KeyLess(keys[j], keys[i])
                                        \/ keys[j] = keys[i] /\ j < i})
    IN  [p \in 1..Len(xs) |-> xs[CHOOSE i \in 1..Len(xs) : Place(i) = p]]

\* sorted(list(a_set)): the order in which a set is listed is immaterial
\* because no two of its strings are equal
RECURSIVE SortedSet(_)
SortedSet(S) ==
    IF S = {} THEN <<>>
    ELSE LET least == CHOOSE x \in S : \A y \in S : StrRank(x) <= StrRank(y)
         IN  <<least>> \o SortedSet(S \ {least})

\* "x or default" and "if x" of an optional string: None and '' are falsy
Truthy(o) == o # None /\ o[1] # ""
StrOr(o, default) == IF Truthy(o) THEN o[1] ELSE default

\* an Ingredient row with its category, and a Recipe row with its title
CategorisedIngredient(name, category, per_100g) ==
    [name |-> name, category |-> category, per_100g |-> per_100g]
TitledRecipe(title, own, servings) ==
    [title |-> title, own |-> own, servings |-> servings]

\* dataclass ShoppingListItem
ShoppingListItem(ingredient_id, ingredient_name, category, total_quantity, unit, recipes_used, notes) ==
    [ingredient_id |-> ingredient_id, ingredient_name |-> ingredient_name,
     category |-> category, total_quantity |-> total_quantity, unit |-> unit,
     recipes_used |-> recipes_used, notes |-> notes]

\* dataclass ShoppingList; items and categories are lists
ShoppingList(start_date, end_date, items, total_recipes, total_meals, categories) ==
    [start_date |-> start_date, end_date |-> end_date, items |-> items,
     total_recipes |-> total_recipes, total_meals |-> total_meals,
     categories |-> categories]

\* the sort keys of the items
CategoryThenName(x) == <<StrOr(x.category, "ZZZ"), x.ingredient_name>>
NameOnly(x) == <<x.ingredient_name>>

\* the join of Ingredient, recipe_ingredients and Recipe for one recipe id,
\* listed in the order the query happens to return: row_order ranks the
\* ingredient ids
RecipeIngredientsData(recipe_id, row_order) ==
    LET rows == {row \in recipe_ingredients :
                    /\ row.recipe_id = recipe_id
                    /\ row.recipe_id \in DOMAIN recipes
                    /\ row.ingredient_id \in DOMAIN ingredients}
        ids == SelectSeq(row_order, LAMBDA i : \E row \in rows : row.ingredient_id = i)
    IN  [k \in 1..Len(ids) |-> CHOOSE row \in rows : row.ingredient_id = ids[k]]

\* an aggregation that keeps the quantity of the line seen last
KeepLast(total_quantity, scaled_quantity) == scaled_quantity

\* "agg['total_quantity'] += scaled_quantity"
AddQuantity(total_quantity, scaled_quantity) == total_quantity + scaled_quantity

\* a unit that follows the line seen last
UnitOfLastLine(fresh, held, unit) == StrOr(unit, "units")

\* "if agg['ingredient'] is None: ... agg['unit'] = unit or 'units'"
UnitOfFirstLine(fresh, held, unit) == IF fresh THEN StrOr(unit, "units") ELSE held

\* the body of the loop over the lines of a recipe: the defaultdict
\* ingredient_aggregation as its keys in the order of insertion and its
\* entries; quantity is never NULL in the table
AggregateLine(aggregation, row, servings) ==
    LET key == row.ingredient_id
        fresh == key \notin DOMAIN aggregation.entries
        agg == IF fresh
               THEN [total_quantity |-> 0, unit |-> "", recipes |-> {}, ingredient |-> key]
               ELSE aggregation.entries[key]
        updated == [agg EXCEPT
                       !.unit = UnitOfFirstLine(fresh, @, row.unit),
                       !.total_quantity = AddQuantity(@, row.quantity * servings),
                       !.recipes = @ \cup {recipes[row.recipe_id].title}]
    IN  [keys |-> IF fresh THEN Append(aggregation.keys, key) ELSE aggregation.keys,
         entries |-> [k \in DOMAIN aggregation.entries \cup {key} |->
                         IF k = key THEN updated ELSE aggregation.entries[k]]]

\* "for ingredient, quantity, unit, recipe_title in recipe_ingredients_data"
RECURSIVE AggregateLines(_, _, _)
AggregateLines(aggregation, rows, servings) ==
    IF rows = <<>> THEN aggregation
    ELSE AggregateLines(AggregateLine(aggregation, Head(rows), servings),
                        Tail(rows), servings)

\* the loop over the plans, or over the recipe ids: entries is the list of
\* <<recipe_id, servings>> in the order processed
RECURSIVE AggregateEntries(_, _, _)
AggregateEntries(aggregation, entries, row_order) ==
    IF entries = <<>> THEN aggregation
    ELSE AggregateEntries(
             AggregateLines(aggregation,
                            RecipeIngredientsData(Head(entries)[1], row_order),
                            Head(entries)[2]),
             Tail(entries), row_order)

EmptyAggregation == [keys |-> <<>>, entries |-> <<>>]

\* "for ingredient_id, agg in ingredient_aggregation.items()": the items
ItemsOf(aggregation) ==
    [i \in 1..Len(aggregation.keys) |->
        LET agg == aggregation.entries[aggregation.keys[i]]
            ingredient == ingredients[agg.ingredient]
        IN  ShoppingListItem(agg.ingredient, ingredient.name, ingredient.category,
                             agg.total_quantity, agg.unit,
                             SortedSet(agg.recipes), None)]

\* ... and the categories
CategoriesOf(aggregation) ==
    {ingredients[id].category[1] :
        id \in {k \in DOMAIN aggregation.entries : Truthy(ingredients[k].category)}}

\* the items in the order of the sort chosen
SortItems(items, group_by_category) ==
    IF group_by_category
    THEN SortedBy(items, [i \in 1..Len(items) |-> CategoryThenName(items[i])])
    ELSE SortedBy(items, [i \in 1..Len(items) |-> NameOnly(items[i])])

\* a filter that leaves the end date out
InDateRangeExclusive(plan, start_date, end_date) ==
    plan.date >= start_date /\ plan.date < end_date

\* "Plan.date >= start_date, Plan.date <= end_date"
InDateRange(plan, start_date, end_date) ==
    plan.date >= start_date /\ plan.date <= end_date

\* the plans of the query of generate_from_date_range, by id
PlansInRange(start_date, end_date, include_completed) ==
    {p \in PlanIds :
        /\ InDateRange(PlanById(p), start_date, end_date)
        /\ include_completed \/ PlanById(p).completed = FALSE}

\* the ShoppingList made of an aggregation
ListOfAggregation(start_date, end_date, aggregation, group_by_category, total_recipes, total_meals) ==
    ShoppingList(start_date, end_date,
                 SortItems(ItemsOf(aggregation), group_by_category),
                 total_recipes, total_meals,
                 SortedSet(CategoriesOf(aggregation)))

\* ShoppingListGenerator.generate_from_date_range; plan_order lists the ids
\* of the plans of the query in the order it happens to return them
generate_from_date_range(start_date, end_date, group_by_category, include_completed, plan_order, row_order) ==
    IF plan_order = <<>>
    THEN ShoppingList(start_date, end_date, <<>>, 0, 0, <<>>)
    ELSE ListOfAggregation(start_date, end_date,
             AggregateEntries(EmptyAggregation,
                 [i \in 1..Len(plan_order) |->
                     <<PlanById(plan_order[i]).recipe_id,
                       PlanById(plan_order[i]).servings>>],
                 row_order),
             group_by_category,
             Cardinality({PlanById(plan_order[i]).recipe_id : i \in 1..Len(plan_order)}),
             Len(plan_order))

\* "servings_per_recipe.get(recipe_id, 1)" after "servings_per_recipe or {}"
ServingsOf(servings_per_recipe, recipe_id) ==
    IF servings_per_recipe # None /\ recipe_id \in DOMAIN servings_per_recipe[1]
    THEN servings_per_recipe[1][recipe_id]
    ELSE 1

\* ShoppingListGenerator.generate_from_recipes; today is date.today()
generate_from_recipes(recipe_ids, servings_per_recipe, row_order, today) ==
    IF recipe_ids = <<>>
    THEN ShoppingList(today, today, <<>>, 0, 0, <<>>)
    ELSE ListOfAggregation(today, today,
             AggregateEntries(EmptyAggregation,
                 [i \in 1..Len(recipe_ids) |->
                     <<recipe_ids[i], ServingsOf(servings_per_recipe, recipe_ids[i])>>],
                 row_order),
             TRUE, Len(recipe_ids), Len(recipe_ids))

-----------------------------------------------------------------------------
(* The objects of a ShoppingList: the list objects of its items and its    *)
(* categories and the ShoppingList object that refers to them              *)

\* a list object
List(elems) == [type |-> "list", elems |-> elems]

\* a new object: the heap with it and its address
New(h, object) == [heap |-> Append(h, object), addr |-> Len(h) + 1]

\* the constructor ShoppingList(...) called with two lists just made
NewShoppingList(h, shopping_list) ==
    LET items == New(h, List(shopping_list.items))
        categories == New(items.heap, List(shopping_list.categories))
    IN  New(categories.heap,
            [type |-> "ShoppingList",
             start_date |-> shopping_list.start_date,
             end_date |-> shopping_list.end_date,
             items |-> items.addr,
             total_recipes |-> shopping_list.total_recipes,
             total_meals |-> shopping_list.total_meals,
             categories |-> categories.addr])

\* a "+" that extends the list on its left in place
ListExtended(h, addr, more) ==
    [heap |-> [h EXCEPT ![addr].elems = @ \o more], addr |-> addr]

\* "a_list + more": a new list
ListPlus(h, addr, more) == New(h, List(h[addr].elems \o more))

\* "a_list.copy()": a new list
ListCopy(h, addr) == New(h, List(h[addr].elems))

\* "if category and category not in new_categories: new_categories.append(
\* category); new_categories.sort()", in place
AddCategory(h, addr, category) ==
    IF Truthy(category) /\ \A i \in 1..Len(h[addr].elems) : h[addr].elems[i] # category[1]
    THEN [h EXCEPT ![addr].elems =
             SortedBy(Append(@, category[1]),
                      [i \in 1..(Len(@) + 1) |-> <<Append(@, category[1])[i]>>])]
    ELSE h

\* "new_items.sort(key=lambda x: (x.category or 'ZZZ', x.ingredient_name))",
\* in place
SortInPlace(h, addr) ==
    [h EXCEPT ![addr].elems = SortItems(@, TRUE)]

\* the ShoppingList that add_custom_item returns, made of the two new lists
CustomListOf(h, shopping_list, new_items, new_categories) ==
    New(h, [type |-> "ShoppingList",
            start_date |-> h[shopping_list].start_date,
            end_date |-> h[shopping_list].end_date,
            items |-> new_items,
            total_recipes |-> h[shopping_list].total_recipes,
            total_meals |-> h[shopping_list].total_meals,
            categories |-> new_categories])

\* the steps of add_custom_item after the two new lists are made
CustomListOfLists(new_items, new_categories, shopping_list, category) ==
    CustomListOf(SortInPlace(AddCategory(new_categories.heap, new_categories.addr,
                                         category),
                             new_items.addr),
                 shopping_list, new_items.addr, new_categories.addr)

\* new_categories, made after new_items
CustomListOfItems(new_items, shopping_list, category) ==
    CustomListOfLists(new_items,
                      ListCopy(new_items.heap, new_items.heap[shopping_list].categories),
                      shopping_list, category)

\* ShoppingListGenerator.add_custom_item; shopping_list is the address of the
\* list handed over, the result the heap and the address of the list returned
add_custom_item(h, shopping_list, item_name, quantity, unit, category, notes) ==
    CustomListOfItems(
        ListPlus(h, h[shopping_list].items,
                 <<ShoppingListItem(-1, item_name, category, quantity, unit, <<>>, notes)>>),
        shopping_list, category)

\* the fields of the ShoppingList at an address, its lists read out
ReadShoppingList(h, addr) ==
    ShoppingList(h[addr].start_date, h[addr].end_date, h[h[addr].items].elems,
                 h[addr].total_recipes, h[addr].total_meals,
                 h[h[addr].categories].elems)

-----------------------------------------------------------------------------
(* SpecCalc: one call of a function of the engine, its arguments and the   *)
(* rows it reads drawn from the input spaces; the call then returns        *)

MaxMacro == 5        \* grams of protein, carbs and fat of calculate_macro_ratios

\* goals handed to calculate_progress
GoalSpace ==
    { NutritionalGoals("maintenance", Some(QInt(2000)), Some(QInt(100)),
                       Some(QInt(250)), Some(QInt(67)), Some(QInt(25)),
                       Some(QInt(2000)), None, None, None),
      NutritionalGoals("weight_loss", Some(QInt(2000)), None, None, None, None,
                       Some(QInt(2000)), None, None, None),
      NutritionalGoals("custom", Some(QInt(0)), None, None, None, Some(QInt(0)),
                       Some(QInt(0)), None, None, None),
      NutritionalGoals("custom", None, None, None, None, None, None,
                       None, None, None),
      create_goals_from_template("weight_loss", QInt(2000), <<>>) }

\* actual intake: a reference day scaled by three factors given in hundredths
\* of a percent, one for calories, one for the four gram targets, one for sodium
ReferenceDay == Vec(2000, 100, 250, 67, 25, 50, 2000)
CaloriesScales == {0, 7996, 8000, 8999, 9000, 10000, 11000, 11004, 12000, 12004,
                   15000, 25000}
GramScales == {0, 7996, 8000, 10000, 12000, 12004, 25000}
SodiumScales == {0, 10000, 10004, 15000, 25000}

Actual(kc, kg, ks) ==
    [v |-> [f \in Fields |->
               ReferenceDay[f] * (IF f = "calories" THEN kc
                                  ELSE IF f = "sodium" THEN ks ELSE kg)],
     d |-> 10000]

RecipeCalls ==
    { [op |-> "analyze_recipe", recipe_id |-> r, servings |-> n] :
        r \in {1, MissingId}, n \in 1..MaxServings }
PeriodCalls ==
    { [op |-> "analyze_period_nutrition", start_date |-> a, end_date |-> b] :
        a \in Dates, b \in Dates }
ProgressCalls ==
    { [op |-> "calculate_progress", goals |-> g,
       actual_nutrition |-> Actual(kc, kg, ks)] :
        g \in GoalSpace, kc \in CaloriesScales, kg \in GramScales,
        ks \in SodiumScales }
\* goals handed to generate_recommendations: the kinds that have tips too
RecommendationGoalSpace ==
    GoalSpace \cup { create_goals_from_template("muscle_gain", QInt(2000), <<>>),
                     create_goals_from_template("endurance", QInt(2000), <<>>) }
RecommendationCalls ==
    { [op |-> "generate_recommendations", goals |-> g,
       actual_nutrition |-> Actual(kc, kg, ks)] :
        g \in RecommendationGoalSpace, kc \in CaloriesScales, kg \in GramScales,
        ks \in SodiumScales }
\* keyword overrides of create_goals_from_template: any of the eight fields
OverrideValues ==
    [protein_ratio |-> QInt(30), carbs_ratio |-> QInt(45), fat_ratio |-> QInt(20),
     daily_protein |-> QInt(120), daily_carbs |-> QInt(200), daily_fat |-> QInt(70),
     daily_fiber |-> QInt(35), daily_sodium_max |-> QInt(1800)]
OverrideSpace ==
    { [k \in keys |-> OverrideValues[k]] : keys \in SUBSET DOMAIN OverrideValues }
TemplateCalls ==
    { [op |-> "create_goals_from_template", goal_type |-> t, daily_calories |-> c,
       overrides |-> o] :
        t \in DOMAIN GOAL_TEMPLATES, c \in CaloriesSpace, o \in OverrideSpace }
MacroCalls ==
    { [op |-> "calculate_macro_ratios",
       nutrition |-> NutritionData(Vec(0, p, c, f, 0, 0, 0))] :
        p \in 0..MaxMacro, c \in 0..MaxMacro, f \in 0..MaxMacro }

\* profiles handed to assess_nutritional_balance: the macros of MacroCalls
\* with fiber and sodium on either side of their thresholds
BalanceCalls ==
    { [op |-> "assess_nutritional_balance",
       nutrition |-> NutritionData(Vec(0, p, c, f, fi, 0, so))] :
        p \in 0..MaxMacro, c \in 0..MaxMacro, f \in 0..MaxMacro,
        fi \in {24, 25}, so \in {2300, 2301} }

InitCalc ==
    /\ ingredients = IngredientTable
    /\ goals_file = None
    /\ heap = <<>>
    /\ ret = Pending
    /\ \/ /\ \E own \in OwnSpace, servings \in BaseServingsSpace :
                 recipes = (1 :> Recipe(own, servings))
          /\ recipe_ingredients \in LineSets(1)
          /\ plans = <<>>
          /\ call \in RecipeCalls
       \/ /\ recipes = CatalogRecipes
          /\ recipe_ingredients = CatalogLines
          /\ plans \in {<<>>, <<create_plan(1, 0, "breakfast", 2, 2)>>}
          /\ call \in PeriodCalls
       \/ /\ recipes = CatalogRecipes
          /\ recipe_ingredients = CatalogLines
          /\ plans = <<>>
          /\ call \in ProgressCalls \cup MacroCalls \cup RecommendationCalls
                        \cup TemplateCalls \cup BalanceCalls

Called(op) == call.op = op /\ ret = Pending

AnalyzeRecipe ==
    /\ Called("analyze_recipe")
    /\ ret' = ReturnedND(analyze_recipe(call.recipe_id, call.servings))
    /\ UNCHANGED <<heap, recipes, ingredients, recipe_ingredients, plans, goals_file, call>>

AnalyzePeriodCalled ==
    /\ Called("analyze_period_nutrition")
    /\ AnalyzePeriod(call.start_date, call.end_date)

CalculateProgress ==
    /\ Called("calculate_progress")
    /\ ret' = calculate_progress(call.goals, call.actual_nutrition)
    /\ UNCHANGED <<heap, recipes, ingredients, recipe_ingredients, plans, goals_file, call>>

CalculateMacroRatios ==
    /\ Called("calculate_macro_ratios")
    /\ ret' = calculate_macro_ratios(call.nutrition)
    /\ UNCHANGED <<heap, recipes, ingredients, recipe_ingredients, plans, goals_file, call>>

GenerateRecommendations ==
    /\ Called("generate_recommendations")
    /\ ret' = generate_recommendations(call.goals, call.actual_nutrition)
    /\ UNCHANGED <<heap, recipes, ingredients, recipe_ingredients, plans, goals_file, call>>

CreateGoalsFromTemplateCalled ==
    /\ Called("create_goals_from_template")
    /\ ret' = Returned(Some(create_goals_from_template(
                  call.goal_type, call.daily_calories, call.overrides)))
    /\ UNCHANGED <<heap, recipes, ingredients, recipe_ingredients, plans, goals_file, call>>

AssessNutritionalBalance ==
    /\ Called("assess_nutritional_balance")
    /\ ret' = assess_nutritional_balance(call.nutrition)
    /\ UNCHANGED <<heap, recipes, ingredients, recipe_ingredients, plans, goals_file, call>>

NextCalc ==
    \/ AnalyzeRecipe
    \/ AnalyzePeriodCalled
    \/ CalculateProgress
    \/ CalculateMacroRatios
    \/ GenerateRecommendations
    \/ CreateGoalsFromTemplateCalled
    \/ AssessNutritionalBalance

SpecCalc == InitCalc /\ [][NextCalc]_vars

-----------------------------------------------------------------------------
(* SpecAnalysis: one analysis of a day or of a period over a plans table   *)
(* drawn from the tables that schedule_meal and update_meal_plan leave     *)

\* a row as schedule_meal creates it; a row of a recipe id that has no row
\* is one that update_meal_plan has pointed there
TableRow(id, target_date, meal_type, meal) ==
    IF meal[1] \in DOMAIN CatalogRecipes
    THEN create_plan(id, target_date, meal_type, meal[1], meal[2])
    ELSE ApplyUpdates(create_plan(id, target_date, meal_type, 1, 1),
                      [recipe_id |-> meal[1], servings |-> meal[2]])

RowSpace == Dates \X MealTypeSpace \X MealSpace

\* a key that orders the rows by date, meal type and recipe
RowKey(r) == (r[1] * 10 + MealTypeRank(r[2])) * 1000 + r[3][1]

\* the tables of at most MaxPlans rows, ids 1, 2, ... in the order of insertion.
\* The analyses read the table by date and order the rows of a slot by
\* tie_break, so the order of insertion is immaterial: the rows are inserted
\* by ascending key.
PlanTables ==
    UNION { { [i \in 1..n |-> TableRow(i, t[i][1], t[i][2], t[i][3])] :
                t \in { u \in [1..n -> RowSpace] :
                           \A i, j \in 1..n : i < j => RowKey(u[i]) <= RowKey(u[j]) } } :
            n \in 0..MaxPlans }

DailyCalls ==
    { [op |-> "analyze_daily_nutrition", target_date |-> d] : d \in Dates }

InitAnalysis ==
    /\ recipes = CatalogRecipes
    /\ ingredients = IngredientTable
    /\ recipe_ingredients = CatalogLines
    /\ goals_file = None
    /\ heap = <<>>
    /\ plans \in PlanTables
    /\ call \in DailyCalls \cup {c \in PeriodCalls : c.start_date <= c.end_date}
    /\ ret = Pending

AnalyzeDailyCalled ==
    /\ Called("analyze_daily_nutrition")
    /\ AnalyzeDailyOn(call.target_date)

NextAnalysis == AnalyzeDailyCalled \/ AnalyzePeriodCalled

SpecAnalysis == InitAnalysis /\ [][NextAnalysis]_vars


-----------------------------------------------------------------------------
(* Properties of analyze_recipe                                            *)

HasReturned(op) == call.op = op /\ ret # Pending

\* the yield of a recipe as the specification reads it: 1 when unset or <= 0
BaseServings(recipe) ==
    IF recipe.servings = None \/ recipe.servings[1] <= 0 THEN 1
    ELSE recipe.servings[1]

\* the sum over the ingredient lines of nutrition_per_100g * quantity / 100; a
\* line whose ingredient, or whose ingredient's calories value, is absent
\* has nothing to contribute
RECURSIVE SumOfLines(_)
SumOfLines(rows) ==
    IF rows = {} THEN NutritionData0
    ELSE LET row == CHOOSE r \in rows : TRUE
             rest == SumOfLines(rows \ {row})
         IN  IF \/ row.ingredient_id \notin DOMAIN ingredients
                \/ ingredients[row.ingredient_id].per_100g.calories = None
             THEN rest
             ELSE NutritionData_add(
                      rest,
                      NutritionData_mul(
                          NutritionData([f \in Fields |->
                              OrZero(ingredients[row.ingredient_id].per_100g[f])]),
                          Q(row.quantity, 100)))

\* C3: resolve(recipe, servings) is own_nutrition scaled by servings when the
\* recipe's own calories are non-zero, and otherwise the sum over the
\* ingredient lines of nutrition_per_100g * quantity / 100, divided by
\* base_servings and multiplied by servings.
C3_ResolveIsOwnOrLineSum ==
    (HasReturned("analyze_recipe") /\ call.recipe_id \in DOMAIN recipes) =>
        LET recipe == recipes[call.recipe_id]
            own == NutritionData([f \in Fields |-> OrZero(recipe.own[f])])
            lines == {row \in recipe_ingredients : row.recipe_id = call.recipe_id}
            expected ==
                IF own.v.calories # 0
                THEN NutritionData_mul(own, QInt(call.servings))
                ELSE NutritionData_mul(SumOfLines(lines),
                                       Q(call.servings, BaseServings(recipe)))
        IN  /\ ret.raised = ""
            /\ NDEq(ret.value[1], expected)

\* C5: no degenerate input surfaces a division by zero: a recipe whose
\* servings are unset, zero or negative resolves as the same recipe with
\* servings 1; a period of zero or fewer days has an all-zero average; a
\* vector without macro calories has the three ratios 0.0; a target of 0
\* gives the percentage 0.
C5_DegenerateInputsFallBack ==
    ret # Pending =>
        /\ ret.raised # "ZeroDivisionError"
        /\ (call.op = "analyze_recipe" /\ call.recipe_id \in DOMAIN recipes
               /\ BaseServings(recipes[call.recipe_id]) = 1) =>
               NDEq(ret.value[1],
                    ResolveRecipe([recipes[call.recipe_id] EXCEPT !.servings = Some(1)],
                                  call.recipe_id, call.servings))
        /\ (call.op = "analyze_period_nutrition"
               /\ (call.end_date - call.start_date) + 1 <= 0) =>
               \A f \in Fields : ret.value[1].average_daily_nutrition[f] = 0
        /\ (call.op = "calculate_macro_ratios"
               /\ call.nutrition.v.protein * 4 + call.nutrition.v.carbs * 4
                      + call.nutrition.v.fat * 9 = 0) =>
               ret.value[1] = [protein |-> 0, carbs |-> 0, fat |-> 0]
        /\ call.op = "calculate_progress" =>
               /\ \A i \in 1..Len(Nutrients) :
                      LET target == TargetOf(call.goals, Nutrients[i])
                      IN  (target # None /\ target[1].n = 0) =>
                              ret.value[1].progress[Nutrients[i]].percentage = 0
               /\ (call.goals.daily_sodium_max # None
                      /\ call.goals.daily_sodium_max[1].n = 0) =>
                      ret.value[1].progress["sodium"].percentage = 0

\* a recipe of yield 0 resolved from its ingredient lines
C5_Witness ==
    /\ HasReturned("analyze_recipe")
    /\ call.recipe_id \in DOMAIN recipes
    /\ recipes[call.recipe_id].servings = Some(0)
    /\ OrZero(recipes[call.recipe_id].own.calories) = 0
    /\ ret.raised = ""
    /\ ret.value[1].v.calories > 0

-----------------------------------------------------------------------------
(* Properties of calculate_macro_ratios                                    *)

\* C8: for a vector with protein, carbs or fat non-zero the three returned
\* percentages, each rounded to one decimal, sum to a value within 0.1 of
\* 100.0; when protein = carbs = fat = 0 all three are exactly 0.0.
C8_MacroRatioClosure ==
    HasReturned("calculate_macro_ratios") =>
        /\ ret.raised = ""
        /\ LET nutrition == call.nutrition
               ratios == ret.value[1]
               sum10 == ratios.protein + ratios.carbs + ratios.fat
           IN  IF nutrition.v.protein = 0 /\ nutrition.v.carbs = 0
                  /\ nutrition.v.fat = 0
               THEN ratios.protein = 0 /\ ratios.carbs = 0 /\ ratios.fat = 0
               ELSE 999 <= sum10 /\ sum10 <= 1001

\* ratios that lose a tenth to rounding: 23.5 + 23.5 + 52.9
C8_Witness ==
    /\ HasReturned("calculate_macro_ratios")
    /\ call.nutrition.v.protein > 0
    /\ ret.raised = ""
    /\ ret.value[1].protein + ret.value[1].carbs + ret.value[1].fat = 999

-----------------------------------------------------------------------------
(* Properties of calculate_progress                                        *)

\* "lo <= actual / target * 100" and "actual / target * 100 <= hi" for a
\* target above 0, without the division
PctAtLeast(actual, target, lo) == QLe(QMul(QInt(lo), target), QMul(QInt(100), actual))
PctAtMost(actual, target, hi) == QLe(QMul(QInt(100), actual), QMul(QInt(hi), target))

\* the status the classification gives a nutrient
ClassOf(nutrient, actual, target) ==
    IF ~PctAtLeast(actual, target, 80) THEN "low"
    ELSE IF ~PctAtMost(actual, target, 120) THEN "high"
    ELSE IF nutrient = "calories" /\ PctAtLeast(actual, target, 90)
            /\ PctAtMost(actual, target, 110)
    THEN "excellent"
    ELSE "good"

\* C9: each nutrient with a set target is classified from
\* percentage = actual / target * 100: calories 'excellent' in [90, 110],
\* 'good' in [80, 90) and (110, 120], 'low' below 80, 'high' above 120;
\* protein, carbs, fat and fiber 'good' in [80, 120], 'low' below 80, 'high'
\* above 120; remaining = max(0, target - actual) is never negative.
C9_ProgressClassification ==
    HasReturned("calculate_progress") =>
        /\ ret.raised = ""
        /\ \A i \in 1..Len(Nutrients) :
               LET nutrient == Nutrients[i]
                   target == TargetOf(call.goals, nutrient)
                   actual == NDField(call.actual_nutrition, nutrient)
               IN  target # None =>
                       /\ nutrient \in DOMAIN ret.value[1].progress
                       /\ LET entry == ret.value[1].progress[nutrient]
                          IN  /\ entry.remaining >= 0
                              /\ entry.remaining =
                                     QRound1(QMax(QInt(0), QSub(target[1], actual)))
                              /\ target[1].n > 0 =>
                                     entry.status = ClassOf(nutrient, actual, target[1])

\* target 2000 kcal met exactly: percentage 100.0, 'excellent'
C9_Witness ==
    /\ HasReturned("calculate_progress")
    /\ call.goals.daily_calories = Some(QInt(2000))
    /\ QEq(NDField(call.actual_nutrition, "calories"), QInt(2000))
    /\ ret.raised = ""
    /\ ret.value[1].progress["calories"].percentage = 1000
    /\ ret.value[1].progress["calories"].status = "excellent"
    /\ ret.value[1].progress["calories"].remaining = 0

\* the sodium entry follows the rules of the ceiling: status 'good' iff
\* actual / max * 100 <= 100 and over_limit = max(0, actual - max)
SodiumRules(daily_sodium_max, actual, entry) ==
    /\ entry.status \in {"good", "over"}
    /\ daily_sodium_max.n > 0 =>
           /\ entry.percentage =
                  Round1(100 * actual.n * daily_sodium_max.d,
                         actual.d * daily_sodium_max.n)
           /\ entry.status = "good" <=> PctAtMost(actual, daily_sodium_max, 100)
    /\ QEq(entry.over_limit, QMax(QInt(0), QSub(actual, daily_sodium_max)))

\* C10 as stated: when daily_sodium_max is set the sodium entry follows the
\* rules of the ceiling, so that over_limit > 0 iff the status is 'over'.
C10_OverLimitIffOver ==
    (HasReturned("calculate_progress") /\ call.goals.daily_sodium_max # None) =>
        /\ ret.raised = ""
        /\ "sodium" \in DOMAIN ret.value[1].progress
        /\ LET entry == ret.value[1].progress["sodium"]
           IN  /\ SodiumRules(call.goals.daily_sodium_max[1],
                              NDField(call.actual_nutrition, "sodium"), entry)
               /\ entry.over_limit.n > 0 <=> entry.status = "over"

\* C10: when daily_sodium_max is set the sodium entry follows the rules of
\* the ceiling; over_limit > 0 iff the status is 'over' holds for a maximum
\* above 0, while a maximum of 0 gives percentage 0 and status 'good' with
\* over_limit equal to the intake.
C10_SodiumCeiling ==
    (HasReturned("calculate_progress") /\ call.goals.daily_sodium_max # None) =>
        /\ ret.raised = ""
        /\ "sodium" \in DOMAIN ret.value[1].progress
        /\ LET entry == ret.value[1].progress["sodium"]
               daily_sodium_max == call.goals.daily_sodium_max[1]
               actual == NDField(call.actual_nutrition, "sodium")
           IN  /\ SodiumRules(daily_sodium_max, actual, entry)
               /\ daily_sodium_max.n > 0 =>
                      (entry.over_limit.n > 0 <=> entry.status = "over")
               /\ daily_sodium_max.n = 0 =>
                      /\ entry.percentage = 0
                      /\ entry.status = "good"
                      /\ QEq(entry.over_limit, actual)

\* maximum 2000 with intake 3000: percentage 150.0, 'over', over_limit 1000.0
\* and sodium sub-score 50
C10_Witness ==
    /\ HasReturned("calculate_progress")
    /\ call.goals.daily_sodium_max = Some(QInt(2000))
    /\ QEq(NDField(call.actual_nutrition, "sodium"), QInt(3000))
    /\ ret.raised = ""
    /\ ret.value[1].progress["sodium"].percentage = 1500
    /\ ret.value[1].progress["sodium"].status = "over"
    /\ QEq(ret.value[1].progress["sodium"].over_limit, QInt(1000))
    /\ QEq(Score("sodium", ret.value[1].progress["sodium"].percentage), QInt(50))

-----------------------------------------------------------------------------
(* Properties of the construction of goals                                 *)

\* all three ratios supplied, their sum more than 0.1 away from 100
AllRatiosSupplied(ratios) == \A i \in 1..3 : ratios[i] # None
RatioSumOff(ratios) ==
    LET total == QAdd(QAdd(ratios[1][1], ratios[2][1]), ratios[3][1])
    IN  \/ QLt(total, Q(999, 10))
        \/ QLt(Q(1001, 10), total)

Constructors == {"NutritionalGoals", "create_goals_from_template"}

-----------------------------------------------------------------------------
(* Properties of the overall score of calculate_progress                   *)

\* the nutrients of a goal whose target is set, sodium included
SetNutrients(goals) ==
    {Nutrients[i] : i \in {j \in 1..Len(Nutrients) : TargetOf(goals, Nutrients[j]) # None}}
        \cup (IF goals.daily_sodium_max # None THEN {"sodium"} ELSE {})

\* the sub-score of a nutrient at a percentage
SubScore(nutrient, percentage) ==
    IF nutrient = "sodium"
    THEN IF QLe(percentage, QInt(100)) THEN QInt(100)
         ELSE QMax(QInt(0), QSub(QInt(200), percentage))
    ELSE IF QLt(percentage, QInt(80)) THEN QMul(percentage, Q(125, 100))
         ELSE IF QLe(percentage, QInt(120)) THEN QInt(100)
         ELSE QMax(QInt(0), QSub(QInt(240), percentage))

\* the arithmetic mean of the sub-scores of the reported percentages of a
\* progress dictionary; 0 when the dictionary is empty
RECURSIVE SumSubScores(_, _)
SumSubScores(progress, keys) ==
    IF keys = {} THEN QInt(0)
    ELSE LET k == CHOOSE x \in keys : TRUE
         IN  QAdd(SubScore(k, Q(progress[k].percentage, 10)),
                  SumSubScores(progress, keys \ {k}))

MeanSubScore(progress) ==
    IF DOMAIN progress = {} THEN QInt(0)
    ELSE QDiv(SumSubScores(progress, DOMAIN progress),
              QInt(Cardinality(DOMAIN progress)))

\* C11 as stated: overall_score is the arithmetic mean of the sub-scores of
\* exactly the nutrients whose target is set (0 when none is set); sodium
\* scores 100 up to 100 percent and max(0, 200 - percentage) above, every
\* other nutrient 100 in [80, 120], percentage * 1.25 below 80 and
\* max(0, 240 - percentage) above 120.
C11_OverallScoreIsMean ==
    (HasReturned("calculate_progress") /\ ret.raised = "") =>
        /\ DOMAIN ret.value[1].progress = SetNutrients(call.goals)
        /\ QEq(Q(ret.value[1].overall_score, 10),
               MeanSubScore(ret.value[1].progress))

\* C11 amended: per_nutrient holds exactly the nutrients whose target is
\* set, and overall_score is the arithmetic mean of their sub-scores, taken
\* at the reported (one-decimal) percentages, rounded to one decimal: a
\* multiple of 0.1 within 0.05 of the mean, and 0 when no target is set.
C11_OverallScoreIsRoundedMean ==
    (HasReturned("calculate_progress") /\ ret.raised = "") =>
        /\ DOMAIN ret.value[1].progress = SetNutrients(call.goals)
        /\ LET mean == MeanSubScore(ret.value[1].progress)
               overall_score == Q(ret.value[1].overall_score, 10)
           IN  /\ QLe(QSub(mean, overall_score), Q(5, 100))
               /\ QLe(QSub(overall_score, mean), Q(5, 100))
               /\ SetNutrients(call.goals) = {} => ret.value[1].overall_score = 0

\* six targets, calories at 150 percent and the rest on target: the scores
\* 90, 100, 100, 100, 100, 100 have the mean 98.33..., reported as 98.3
C11_Witness ==
    /\ HasReturned("calculate_progress")
    /\ ret.raised = ""
    /\ Cardinality(SetNutrients(call.goals)) = 6
    /\ ret.value[1].progress["calories"].percentage = 1500
    /\ \A k \in SetNutrients(call.goals) \ {"calories"} :
           ret.value[1].progress[k].percentage = 1000
    /\ ret.value[1].overall_score = 983

-----------------------------------------------------------------------------
(* NutritionalGoalManager.analyze_weekly_progress                          *)

\* a week of eight days
WeekEndInclusive(start_date) == start_date + 7

\* "end_date = start_date + timedelta(days=6)"
WeekEnd(start_date) == start_date + 6

\* the body of the loop over the daily analyses: the progress of the day's
\* total, read back from its dictionary, with the date added
DailyProgress(progress, daily_analysis) ==
    IF progress.raised # "" THEN progress
    ELSE Returned(Some([progress |-> progress.value[1].progress,
                        overall_score |-> progress.value[1].overall_score,
                        goal_type |-> progress.value[1].goal_type,
                        date |-> daily_analysis.date]))

\* "for daily_analysis in period_analysis['daily_analyses']"
LoopDailyProgresses(goals, daily_analyses) ==
    [i \in 1..Len(daily_analyses) |->
        DailyProgress(calculate_progress(goals,
                          FromDict(daily_analyses[i].total_nutrition)),
                      daily_analyses[i])]

\* "sum(...)" of a list of scores, counted in tenths
RECURSIVE SumOf(_)
SumOf(xs) == IF xs = <<>> THEN 0 ELSE Head(xs) + SumOf(Tail(xs))

\* "sum((score - avg_score) ** 2 for score in daily_scores) / len(daily_scores)"
\* with avg_score = sum(daily_scores) / len(daily_scores); the scores are in
\* tenths, so score - avg_score = (len * score - sum) / (10 * len)
ScoreVariance(daily_scores, total) ==
    [n |-> SumOf([i \in 1..Len(daily_scores) |->
                     (Len(daily_scores) * daily_scores[i] - total)
                         * (Len(daily_scores) * daily_scores[i] - total)]),
     d |-> 100 * Len(daily_scores) * Len(daily_scores) * Len(daily_scores)]

\* "max(0, 100 - score_variance)"
MaxZeroHundredMinus(score_variance) ==
    QMax(QInt(0), Q(100 * score_variance.d - score_variance.n, score_variance.d))

\* the consistency score of the daily scores, before it is rounded
ConsistencyScore(daily_scores) ==
    IF daily_scores # <<>>
    THEN MaxZeroHundredMinus(ScoreVariance(daily_scores, SumOf(daily_scores)))
    ELSE QInt(0)

\* the dictionary analyze_weekly_progress returns
WeeklyAnalysis(start_date, end_date, period_analysis, daily_progresses, weekly_progress) ==
    IF \/ weekly_progress.raised # ""
       \/ \E i \in 1..Len(daily_progresses) : daily_progresses[i].raised # ""
    THEN Raised("ZeroDivisionError")
    ELSE Returned(Some(
        [week_start |-> start_date,
         week_end |-> end_date,
         daily_progresses |->
             [i \in 1..Len(daily_progresses) |-> daily_progresses[i].value[1]],
         weekly_progress |-> weekly_progress.value[1],
         weekly_totals |-> to_dict(FromDict(period_analysis.total_nutrition)),
         weekly_averages |->
             to_dict(FromDict(period_analysis.average_daily_nutrition)),
         consistency_score |->
             QRound1(ConsistencyScore(
                 [i \in 1..Len(daily_progresses) |->
                     daily_progresses[i].value[1].overall_score])),
         days_with_data |->
             Cardinality({i \in 1..Len(daily_progresses) :
                             daily_progresses[i].value[1].overall_score > 0})]))

\* the progress of every day and of the weekly average of a period analysis
WeeklyOf(goals, start_date, end_date, period_analysis) ==
    IF period_analysis.raised # "" THEN period_analysis
    ELSE WeeklyAnalysis(start_date, end_date, period_analysis.value[1],
             LoopDailyProgresses(goals, period_analysis.value[1].daily_analyses),
             calculate_progress(goals,
                 FromDict(period_analysis.value[1].average_daily_nutrition)))

\* NutritionalGoalManager.analyze_weekly_progress
analyze_weekly_progress(goals, start_date, tie_break) ==
    WeeklyOf(goals, start_date, WeekEnd(start_date),
             analyze_period_nutrition(start_date, WeekEnd(start_date), tie_break))

-----------------------------------------------------------------------------
(* SpecWeekly: one weekly analysis of a plans table against a goal         *)

\* goals of one meal of recipe 1: its calories alone, a sodium ceiling just
\* under its sodium alone, and no target at all
WeeklyGoalSpace ==
    { NutritionalGoals("custom", Some(QInt(250)), None, None, None, None, None,
                       None, None, None),
      NutritionalGoals("maintenance", None, None, None, None, None,
                       Some(QInt(110)), None, None, None),
      NutritionalGoals("custom", None, None, None, None, None, None,
                       None, None, None) }

\* weeks that end on the first day of the schedule, begin on it, and begin on
\* its last day
WeekStarts == {0 - 6, 0, MaxDay}

WeeklyCalls ==
    { [op |-> "analyze_weekly_progress", goals |-> g, start_date |-> s] :
        g \in WeeklyGoalSpace, s \in WeekStarts }

InitWeekly ==
    /\ recipes = CatalogRecipes
    /\ ingredients = IngredientTable
    /\ recipe_ingredients = CatalogLines
    /\ goals_file = None
    /\ heap = <<>>
    /\ plans \in PlanTables
    /\ call \in WeeklyCalls
    /\ ret = Pending

AnalyzeWeeklyProgress ==
    /\ Called("analyze_weekly_progress")
    /\ \E tie_break \in TieBreaks :
           ret' = analyze_weekly_progress(call.goals, call.start_date, tie_break)
    /\ UNCHANGED <<heap, recipes, ingredients, recipe_ingredients, plans, goals_file, call>>

NextWeekly == AnalyzeWeeklyProgress

SpecWeekly == InitWeekly /\ [][NextWeekly]_vars

-----------------------------------------------------------------------------
(* Properties of analyze_weekly_progress                                   *)

RECURSIVE SumOver(_, _)
SumOver(xs, k) == IF k = 0 THEN 0 ELSE xs[k] + SumOver(xs, k - 1)

\* the population variance of scores given in tenths: the mean of the
\* squares less the square of the mean
PopulationVariance(scores10) ==
    LET n == Len(scores10)
        sum == SumOver(scores10, n)
        squares == SumOver([i \in 1..n |-> scores10[i] * scores10[i]], n)
    IN  Q(n * squares - sum * sum, 100 * n * n)

\* max(0, 100 - V) of the daily overall scores of a weekly analysis
HundredLessVariance(weekly) ==
    QMax(QInt(0),
         QSub(QInt(100),
              PopulationVariance([i \in 1..Len(weekly.daily_progresses) |->
                                     weekly.daily_progresses[i].overall_score])))

\* seven daily entries, one per date of the week, in order
SevenDaysInOrder(weekly, start_date) ==
    /\ Len(weekly.daily_progresses) = 7
    /\ \A i \in 1..7 : weekly.daily_progresses[i].date = start_date + (i - 1)

\* C12 as stated: the weekly analysis has exactly 7 daily progress entries,
\* one per date start_date .. start_date + 6 in order, and consistency_score
\* equals max(0, 100 - V), V the population variance of the seven daily
\* overall scores; so it is in [0, 100] and is 100 when the seven are equal.
C12_ConsistencyIsHundredLessVariance ==
    (HasReturned("analyze_weekly_progress") /\ ret.raised = "") =>
        /\ SevenDaysInOrder(ret.value[1], call.start_date)
        /\ QEq(Q(ret.value[1].consistency_score, 10),
               HundredLessVariance(ret.value[1]))

\* C12 amended: the weekly analysis has exactly 7 daily progress entries,
\* one per date start_date .. start_date + 6 in order, and consistency_score
\* is max(0, 100 - V) rounded to one decimal, V the population variance of
\* the seven daily overall scores: a multiple of 0.1 within 0.05 of
\* max(0, 100 - V), in [0, 100], and 100 when the seven scores are equal.
C12_ConsistencyIsRoundedHundredLessVariance ==
    HasReturned("analyze_weekly_progress") =>
        /\ ret.raised = ""
        /\ SevenDaysInOrder(ret.value[1], call.start_date)
        /\ LET exact == HundredLessVariance(ret.value[1])
               consistency_score == Q(ret.value[1].consistency_score, 10)
           IN  /\ QLe(QSub(exact, consistency_score), Q(5, 100))
               /\ QLe(QSub(consistency_score, exact), Q(5, 100))
        /\ ret.value[1].consistency_score \in 0..1000
        /\ (\A i \in 1..7 : ret.value[1].daily_progresses[i].overall_score =
                               ret.value[1].daily_progresses[1].overall_score)
               => ret.value[1].consistency_score = 1000

\* a week whose daily scores differ and whose max(0, 100 - V) is not a
\* multiple of 0.1
C12_Witness ==
    /\ HasReturned("analyze_weekly_progress")
    /\ ret.raised = ""
    /\ Len(ret.value[1].daily_progresses) = 7
    /\ \E i \in 1..7 : ret.value[1].daily_progresses[i].overall_score = 1000
    /\ \E i \in 1..7 : ret.value[1].daily_progresses[i].overall_score = 909
    /\ ret.value[1].consistency_score \in 1..999
    /\ ~QEq(Q(ret.value[1].consistency_score, 10), HundredLessVariance(ret.value[1]))

-----------------------------------------------------------------------------
(* Properties of generate_recommendations                                  *)

\* the per-nutrient recommendations that the statuses of a progress call
\* for, as <<nutrient, direction>>, in the order calories, protein, carbs,
\* fat, fiber, sodium
RECURSIVE AdviceOfStatuses(_, _)
AdviceOfStatuses(progress, order) ==
    IF order = <<>> THEN <<>>
    ELSE LET nutrient == Head(order)
             advice ==
                 IF nutrient \notin DOMAIN progress THEN <<>>
                 ELSE IF nutrient # "sodium" /\ progress[nutrient].status = "low"
                 THEN <<<<nutrient, "increase">>>>
                 ELSE IF nutrient # "sodium" /\ progress[nutrient].status = "high"
                 THEN <<<<nutrient, "reduce">>>>
                 ELSE IF nutrient = "sodium" /\ progress[nutrient].status = "over"
                 THEN <<<<nutrient, "reduce">>>>
                 ELSE <<>>
         IN  advice \o AdviceOfStatuses(progress, Tail(order))

\* the tips of each goal kind, in the order of generation
KindTips(goal_type) ==
    CASE goal_type = "weight_loss" ->
           <<"Focus on portion control and choose lower-calorie, nutrient-dense foods.",
             "Increase fiber intake with vegetables, fruits, and whole grains to help with satiety.">>
      [] goal_type = "muscle_gain" ->
           <<"Include protein-rich foods like lean meats, eggs, dairy, or legumes in each meal.",
             "Add healthy calorie-dense foods like nuts, avocados, and whole grains.">>
      [] goal_type = "endurance" ->
           <<"Include complex carbohydrates like oats, quinoa, and sweet potatoes for sustained energy.">>
      [] OTHER -> <<>>

\* the tips at the positions chosen, as <<"tip", text>>, in order
RECURSIVE TipsAt(_, _, _)
TipsAt(tips, chosen, i) ==
    IF i > Len(tips) THEN <<>>
    ELSE (IF i \in chosen THEN <<<<"tip", tips[i]>>>> ELSE <<>>)
             \o TipsAt(tips, chosen, i + 1)

\* what a returned recommendation says: <<nutrient, direction>> or <<"tip", text>>
Saying(recommendation) ==
    IF "nutrient" \notin DOMAIN recommendation
    THEN <<"tip", recommendation.text>>
    ELSE <<recommendation.nutrient,
           IF recommendation.text = "Increase {} intake by {}{}. Current: {}, Target: {}"
           THEN "increase" ELSE "reduce">>

FirstOf(xs, n) == SubSeq(xs, 1, IF Len(xs) < n THEN Len(xs) ELSE n)

\* C13: generate_recommendations returns at most 5 recommendations, and they
\* are the first min(5, n) of the generated sequence: one recommendation per
\* nutrient whose status is low or high (over, for sodium) in the order
\* calories, protein, carbs, fat, fiber, sodium, followed by tips of the kind
\* of the goal in their order.
C13_FirstFiveInGenerationOrder ==
    HasReturned("generate_recommendations") =>
        /\ ret.raised = ""
        /\ Len(ret.value[1]) <= 5
        /\ \E chosen \in SUBSET (1..Len(KindTips(call.goals.goal_type))) :
               [i \in 1..Len(ret.value[1]) |-> Saying(ret.value[1][i])] =
                   FirstOf(AdviceOfStatuses(
                               calculate_progress(call.goals, call.actual_nutrition)
                                   .value[1].progress,
                               <<"calories", "protein", "carbs", "fat", "fiber", "sodium">>)
                             \o TipsAt(KindTips(call.goals.goal_type), chosen, 1),
                           5)

\* a weight-loss goal, calories on target from above, all four gram targets
\* missed and fiber under 25: four recommendations and two tips are
\* generated, the first tip is the fifth returned and the second is cut
C13_Witness ==
    /\ HasReturned("generate_recommendations")
    /\ call.goals.goal_type = "weight_loss"
    /\ QLt(NDField(call.actual_nutrition, "fiber"), QInt(25))
    /\ ret.raised = ""
    /\ Len(ret.value[1]) = 5
    /\ [i \in 1..4 |-> Saying(ret.value[1][i])] =
           <<<<"protein", "increase">>, <<"carbs", "increase">>,
             <<"fat", "increase">>, <<"fiber", "increase">>>>
    /\ ret.value[1][5] =
           [text |-> "Focus on portion control and choose lower-calorie, nutrient-dense foods."]

-----------------------------------------------------------------------------
(* Properties of create_goals_from_template                                *)

\* field = calories * ratio / 100 / per_gram, without the division
GramsFromRatio(grams, calories, ratio, per_gram) ==
    QEq(QMul(grams, QInt(100 * per_gram)), QMul(calories, ratio))

\* the value of a templated field: the override when given, else the template's
EffectiveValue(goal_type, overrides, key) ==
    IF key \in DOMAIN overrides THEN overrides[key]
    ELSE QInt(GOAL_TEMPLATES[goal_type][key])

\* C14: for each of the five templated goal kinds every ratio, fiber and
\* sodium maximum comes from the template unless an override for that field
\* is given, which then replaces it field by field; the grams are
\* calories * ratio / 100 / 4 for protein and carbs and / 9 for fat, from
\* the effective ratios, unless a gram value is overridden, which then wins.
C14_TemplateWithOverrides ==
    (HasReturned("create_goals_from_template") /\ "overrides" \in DOMAIN call) =>
        /\ ret.raised = ""
        /\ LET goals == ret.value[1]
               overrides == call.overrides
           IN  /\ goals.goal_type = call.goal_type
               /\ goals.daily_calories = Some(call.daily_calories)
               /\ \A key \in {"protein_ratio", "carbs_ratio", "fat_ratio",
                              "daily_fiber", "daily_sodium_max"} :
                      /\ goals[key] # None
                      /\ QEq(goals[key][1],
                             EffectiveValue(call.goal_type, overrides, key))
               /\ IF "daily_protein" \in DOMAIN overrides
                  THEN goals.daily_protein = Some(overrides.daily_protein)
                  ELSE GramsFromRatio(goals.daily_protein[1], call.daily_calories,
                                      goals.protein_ratio[1], 4)
               /\ IF "daily_carbs" \in DOMAIN overrides
                  THEN goals.daily_carbs = Some(overrides.daily_carbs)
                  ELSE GramsFromRatio(goals.daily_carbs[1], call.daily_calories,
                                      goals.carbs_ratio[1], 4)
               /\ IF "daily_fat" \in DOMAIN overrides
                  THEN goals.daily_fat = Some(overrides.daily_fat)
                  ELSE GramsFromRatio(goals.daily_fat[1], call.daily_calories,
                                      goals.fat_ratio[1], 9)

\* an endurance goal of 2000 kcal with protein_ratio 30 and daily_fat 70
\* overridden: protein is 150 g from the overridden ratio, carbs 300 g from
\* the template's 60, fat the 70 g given, fiber the template's 30
C14_Witness ==
    /\ HasReturned("create_goals_from_template")
    /\ call.goal_type = "endurance"
    /\ "overrides" \in DOMAIN call
    /\ DOMAIN call.overrides = {"protein_ratio", "daily_fat"}
    /\ ret.value[1].protein_ratio = Some(QInt(30))
    /\ ret.value[1].daily_protein = Some(QInt(150))
    /\ ret.value[1].daily_carbs = Some(QInt(300))
    /\ ret.value[1].daily_fat = Some(QInt(70))
    /\ ret.value[1].daily_fiber = Some(QInt(30))

-----------------------------------------------------------------------------
(* Properties of assess_nutritional_balance                                *)

\* where a reported ratio (in tenths) lies: "below", "in" or "above" the range
\* protein [10, 35], carbs [45, 65], fat [20, 35]
RangeSide(macro, ratio10) ==
    LET lo == CASE macro = "protein" -> 100 [] macro = "carbs" -> 450 [] macro = "fat" -> 200
        hi == CASE macro = "protein" -> 350 [] macro = "carbs" -> 650 [] macro = "fat" -> 350
    IN  IF ratio10 < lo THEN "below" ELSE IF ratio10 > hi THEN "above" ELSE "in"

\* the entries the assessment calls for, as <<nutrient, direction>>, in the
\* order protein, carbs, fat, fiber, sodium
RECURSIVE ExpectedBalanceAdvice(_, _, _)
ExpectedBalanceAdvice(macro_ratios, nutrition, order) ==
    IF order = <<>> THEN <<>>
    ELSE LET x == Head(order)
             entry ==
                 IF x = "fiber"
                 THEN IF QLt(NDField(nutrition, "fiber"), QInt(25))
                      THEN <<<<x, "increase">>>> ELSE <<>>
                 ELSE IF x = "sodium"
                 THEN IF QLt(QInt(2300), NDField(nutrition, "sodium"))
                      THEN <<<<x, "reduce">>>> ELSE <<>>
                 ELSE IF RangeSide(x, macro_ratios[x]) = "below"
                 THEN <<<<x, "increase">>>>
                 ELSE IF RangeSide(x, macro_ratios[x]) = "above"
                 THEN <<<<x, "reduce">>>>
                 ELSE <<>>
         IN  entry \o ExpectedBalanceAdvice(macro_ratios, nutrition, Tail(order))

\* what an entry of the assessment says: <<nutrient, direction>>
BalanceSaying(recommendation) ==
    <<recommendation.nutrient,
      IF recommendation.text \in
             {"Consider increasing {} intake (currently {}%, recommended {}-{}%)",
              "Consider increasing fiber intake (currently {}g, recommended 25-35g)"}
      THEN "increase" ELSE "reduce">>

\* C15: balance_score is the number of macros whose reported ratio is in
\* range (protein in [10, 35], carbs in [45, 65], fat in [20, 35]), so it is
\* between 0 and 3; the recommendations hold, in the order protein, carbs,
\* fat, fiber, sodium, one entry per macro out of range (increase if below,
\* reduce if above), a fiber entry iff fiber < 25 and a sodium entry iff
\* sodium > 2300: (3 - balance_score) + [fiber < 25] + [sodium > 2300] entries.
C15_BalanceScoreAndAdvice ==
    HasReturned("assess_nutritional_balance") =>
        /\ ret.raised = ""
        /\ LET assessment == ret.value[1]
               in_range == {x \in {"protein", "carbs", "fat"} :
                               RangeSide(x, assessment.macro_ratios[x]) = "in"}
           IN  /\ assessment.balance_score = Cardinality(in_range)
               /\ assessment.balance_score \in 0..3
               /\ [i \in 1..Len(assessment.recommendations) |->
                      BalanceSaying(assessment.recommendations[i])] =
                      ExpectedBalanceAdvice(assessment.macro_ratios, call.nutrition,
                          <<"protein", "carbs", "fat", "fiber", "sodium">>)
               /\ Len(assessment.recommendations) =
                      (3 - assessment.balance_score)
                      + (IF QLt(NDField(call.nutrition, "fiber"), QInt(25)) THEN 1 ELSE 0)
                      + (IF QLt(QInt(2300), NDField(call.nutrition, "sodium")) THEN 1 ELSE 0)

\* protein 35.6 per cent (above), carbs 44.4 (below), fat 20.0 (on the lower
\* end of its range), fiber 24 and sodium 2301: score 1 and four entries
C15_Witness ==
    /\ HasReturned("assess_nutritional_balance")
    /\ ret.raised = ""
    /\ ret.value[1].macro_ratios = [protein |-> 356, carbs |-> 444, fat |-> 200]
    /\ ret.value[1].balance_score = 1
    /\ [i \in 1..Len(ret.value[1].recommendations) |->
           BalanceSaying(ret.value[1].recommendations[i])] =
           <<<<"protein", "reduce">>, <<"carbs", "increase">>,
             <<"fiber", "increase">>, <<"sodium", "reduce">>>>

-----------------------------------------------------------------------------
(* SpecShopping: one shopping list generated from a catalogue of three     *)
(* recipes over three ingredients and a plans table drawn from EntrySpace  *)

MaxEntries == 3      \* rows of the plans table; recipe ids handed over

\* milk is in a category, salt in none, the apple in one written small
ShoppingIngredients ==
    (1 :> CategorisedIngredient("Milk", Some("Dairy"), IngredientTable[1].per_100g))
 @@ (2 :> CategorisedIngredient("Salt", None, IngredientTable[2].per_100g))
 @@ (3 :> CategorisedIngredient("Apple", Some("fruit"), IngredientTable[3].per_100g))

ShoppingRecipes ==
    (1 :> TitledRecipe("Pancakes", CatalogRecipes[2].own, Some(2)))
 @@ (2 :> TitledRecipe("Porridge", CatalogRecipes[2].own, Some(1)))
 @@ (3 :> TitledRecipe("Water", CatalogRecipes[2].own, Some(1)))

\* pancakes take 100 ml of milk and 5 of salt, porridge 50 g of milk and 2
\* apples; water has no line
ShoppingLines ==
    { [recipe_id |-> 1, ingredient_id |-> 1, quantity |-> 100, unit |-> Some("ml")],
      [recipe_id |-> 1, ingredient_id |-> 2, quantity |-> 5, unit |-> None],
      [recipe_id |-> 2, ingredient_id |-> 1, quantity |-> 50, unit |-> Some("g")],
      [recipe_id |-> 2, ingredient_id |-> 3, quantity |-> 2, unit |-> Some("units")] }

\* the rows a plans table is made of: date, recipe id, servings, completed
EntrySpace ==
    << <<0, 1, 1, FALSE>>, <<0, 1, 2, FALSE>>, <<1, 2, 1, FALSE>>,
       <<1, 1, 1, TRUE>>, <<2, 2, 2, FALSE>>, <<0, 3, 1, FALSE>> >>

\* a row as schedule_meal creates it and complete_meal marks it; the meal
\* types follow the position so that no two rows of a table share a slot
EntryRow(id, entry) ==
    [create_plan(id, entry[1], <<"breakfast", "lunch", "dinner", "snack">>[((id - 1) % 4) + 1],
                 entry[2], entry[3])
        EXCEPT !.completed = entry[4]]

\* the tables of at most MaxEntries rows; the generator does not depend on
\* the order of insertion, so the rows are inserted in the order of EntrySpace
ShoppingPlanTables ==
    UNION { { [i \in 1..n |-> EntryRow(i, EntrySpace[t[i]])] :
                t \in { u \in [1..n -> 1..Len(EntrySpace)] :
                           \A i, j \in 1..n : i < j => u[i] <= u[j] } } :
            n \in 0..MaxEntries }

DateRangeCalls ==
    { [op |-> "generate_from_date_range", start_date |-> r[1], end_date |-> r[2],
       group_by_category |-> g, include_completed |-> c] :
        r \in {<<0, 1>>, <<0, 2>>, <<1, 0>>, <<2, 2>>}, g \in BOOLEAN, c \in BOOLEAN }

FromRecipesCalls ==
    { [op |-> "generate_from_recipes", recipe_ids |-> ids, servings_per_recipe |-> s] :
        ids \in UNION {[1..n -> DOMAIN ShoppingRecipes] : n \in 0..MaxEntries},
        s \in {None, Some(1 :> 2), Some(1 :> 2 @@ 2 :> 3)} }

InitShopping ==
    /\ recipes = ShoppingRecipes
    /\ ingredients = ShoppingIngredients
    /\ recipe_ingredients = ShoppingLines
    /\ goals_file = None
    /\ heap = <<>>
    /\ ret = Pending
    /\ \/ plans \in ShoppingPlanTables /\ call \in DateRangeCalls
       \/ plans = <<>> /\ call \in FromRecipesCalls

\* the orders in which a query may return a set of rows
Orderings(S) ==
    {f \in [1..Cardinality(S) -> S] : \A i, j \in 1..Cardinality(S) : f[i] = f[j] => i = j}

GenerateFromDateRange ==
    /\ Called("generate_from_date_range")
    /\ \E plan_order \in Orderings(PlansInRange(call.start_date, call.end_date,
                                                call.include_completed)),
          row_order \in Orderings(DOMAIN ingredients) :
           LET made == NewShoppingList(heap,
                           generate_from_date_range(call.start_date, call.end_date,
                               call.group_by_category, call.include_completed,
                               plan_order, row_order))
           IN  /\ heap' = made.heap
               /\ ret' = Returned(Some(made.addr))
    /\ UNCHANGED <<recipes, ingredients, recipe_ingredients, plans, goals_file, call>>

GenerateFromRecipes ==
    /\ Called("generate_from_recipes")
    /\ \E row_order \in Orderings(DOMAIN ingredients), today \in {0, 1} :
           LET made == NewShoppingList(heap,
                           generate_from_recipes(call.recipe_ids,
                               call.servings_per_recipe, row_order, today))
           IN  /\ heap' = made.heap
               /\ ret' = Returned(Some(made.addr))
    /\ UNCHANGED <<recipes, ingredients, recipe_ingredients, plans, goals_file, call>>

NextShopping == GenerateFromDateRange \/ GenerateFromRecipes

SpecShopping == InitShopping /\ [][NextShopping]_vars

\* the ShoppingList returned
ReturnedList == ReadShoppingList(heap, ret.value[1])

-----------------------------------------------------------------------------
(* Properties of the generated shopping lists                              *)

\* the entries that contribute to the list of the call: the plans of the
\* date range that are not completed (or all of them with include_completed),
\* or the recipe ids handed over, each with its servings (1 by default)
ContributingEntries ==
    IF call.op = "generate_from_date_range"
    THEN [i \in {k \in 1..Len(plans) :
                    /\ call.start_date <= plans[k].date
                    /\ plans[k].date <= call.end_date
                    /\ (~plans[k].completed \/ call.include_completed)} |->
             [recipe_id |-> plans[i].recipe_id, servings |-> plans[i].servings]]
    ELSE [i \in 1..Len(call.recipe_ids) |->
             [recipe_id |-> call.recipe_ids[i],
              servings |->
                  IF /\ call.servings_per_recipe # None
                     /\ call.recipe_ids[i] \in DOMAIN call.servings_per_recipe[1]
                  THEN call.servings_per_recipe[1][call.recipe_ids[i]]
                  ELSE 1]]

\* the quantity of the line of a recipe for an ingredient, 0 without a line
LineQuantity(recipe_id, ingredient_id) ==
    LET lines == {row \in recipe_ingredients :
                     row.recipe_id = recipe_id /\ row.ingredient_id = ingredient_id}
    IN  IF lines = {} THEN 0 ELSE (CHOOSE row \in lines : TRUE).quantity

\* the sum over the entries of line quantity * servings for an ingredient
RECURSIVE SumOfEntries(_, _, _)
SumOfEntries(entries, indices, ingredient_id) ==
    IF indices = {} THEN 0
    ELSE LET i == CHOOSE k \in indices : TRUE
         IN  LineQuantity(entries[i].recipe_id, ingredient_id) * entries[i].servings
                 + SumOfEntries(entries, indices \ {i}, ingredient_id)

\* the ingredient ids that occur in a line of a contributing recipe
ContributedIngredients(entries) ==
    {row.ingredient_id :
        row \in {r \in recipe_ingredients :
                    \E i \in DOMAIN entries : entries[i].recipe_id = r.recipe_id}}

IsGenerated ==
    /\ call.op \in {"generate_from_date_range", "generate_from_recipes"}
    /\ ret # Pending

\* C16: a generated list has exactly one item per ingredient id that occurs
\* in a line of a contributing recipe, and the item's total_quantity is the
\* sum of line quantity * entry servings over the plans with
\* start_date <= date <= end_date that are not completed (any with
\* include_completed), or over the recipe ids handed over with servings
\* defaulting to 1.
C16_TotalsAreSumsOverEntries ==
    IsGenerated =>
        /\ ret.raised = ""
        /\ LET items == ReturnedList.items
               entries == ContributingEntries
           IN  /\ {items[i].ingredient_id : i \in 1..Len(items)} =
                      ContributedIngredients(entries)
               /\ Len(items) = Cardinality(ContributedIngredients(entries))
               /\ \A i \in 1..Len(items) :
                      items[i].total_quantity =
                          SumOfEntries(entries, DOMAIN entries, items[i].ingredient_id)

\* three plans of pancakes in the range with servings 1, 1 and 2, the line of
\* milk being 100: milk totals 400
C16_Witness ==
    /\ IsGenerated
    /\ call.op = "generate_from_date_range"
    /\ Len(plans) = 3
    /\ \A i \in 1..3 : plans[i].recipe_id = 1 /\ ~plans[i].completed
                       /\ plans[i].date = 0
    /\ plans[1].servings + plans[2].servings + plans[3].servings = 4
    /\ call.start_date = 0 /\ call.end_date = 1
    /\ \E i \in 1..Len(ReturnedList.items) :
           /\ ReturnedList.items[i].ingredient_name = "Milk"
           /\ ReturnedList.items[i].total_quantity = 400


\* C17: in a list generated from a date range total_meals is the number of
\* entries left by the date and completed filters and total_recipes the
\* number of distinct recipe ids among them; in a list generated from recipe
\* ids total_meals is the number of ids handed over and total_recipes the
\* number of distinct ids among them; without entries both are 0 and there
\* are no items.
C17_CountsOfMealsAndRecipes ==
    (IsGenerated /\ ret.raised = "") =>
        LET entries == ContributingEntries
        IN  /\ ReturnedList.total_meals = Cardinality(DOMAIN entries)
            /\ ReturnedList.total_recipes =
                   Cardinality({entries[i].recipe_id : i \in DOMAIN entries})
            /\ DOMAIN entries = {} => ReturnedList.items = <<>>


\* the total of each ingredient of a list
TotalsOf(shopping_list) ==
    {<<shopping_list.items[i].ingredient_id, shopping_list.items[i].total_quantity>> :
        i \in 1..Len(shopping_list.items)}

\* the lists the call generates, one for each order in which the entries
\* and the lines of a recipe can be processed
ListsOfAllOrders ==
    IF call.op = "generate_from_date_range"
    THEN { generate_from_date_range(call.start_date, call.end_date,
                                    call.group_by_category, call.include_completed,
                                    plan_order, row_order) :
             plan_order \in Orderings(PlansInRange(call.start_date, call.end_date,
                                                   call.include_completed)),
             row_order \in Orderings(DOMAIN ingredients) }
    ELSE { generate_from_recipes([i \in 1..Len(call.recipe_ids) |-> call.recipe_ids[o[i]]],
                                 call.servings_per_recipe, row_order, 0) :
             o \in Orderings(1..Len(call.recipe_ids)),
             row_order \in Orderings(DOMAIN ingredients) }

\* C18: the total_quantity of each ingredient, and so the set of ingredient
\* ids of the list, is the same for every two orders in which the entries
\* are processed.
C18_TotalsIndependentOfOrder ==
    (IsGenerated /\ ret.raised = "") =>
        \A other \in ListsOfAllOrders : TotalsOf(other) = TotalsOf(ReturnedList)

\* a plan of pancakes and a plan of porridge, both with milk: the unit of
\* milk is that of the plan processed first, its total 150 either way
C18_Witness ==
    /\ IsGenerated
    /\ call.op = "generate_from_date_range"
    /\ {ContributingEntries[i].recipe_id : i \in DOMAIN ContributingEntries} = {1, 2}
    /\ Cardinality({other.items : other \in ListsOfAllOrders}) > 1
    /\ \E i \in 1..Len(ReturnedList.items) :
           /\ ReturnedList.items[i].ingredient_id = 1
           /\ ReturnedList.items[i].total_quantity = 150


\* the output ordering: ascending by (category, ingredient_name), an item
\* without a category after every item with one
InOutputOrder(x, y) ==
    IF x.category # None /\ y.category # None
    THEN \/ StrRank(x.category[1]) < StrRank(y.category[1])
         \/ /\ x.category = y.category
            /\ StrRank(x.ingredient_name) <= StrRank(y.ingredient_name)
    ELSE IF x.category = None /\ y.category = None
    THEN StrRank(x.ingredient_name) <= StrRank(y.ingredient_name)
    ELSE y.category = None

\* the items are in the output order and the categories are the non-null
\* categories of the items, ascending and without duplicates
OutputOrdered(shopping_list) ==
    /\ \A i, j \in 1..Len(shopping_list.items) :
           i < j => InOutputOrder(shopping_list.items[i], shopping_list.items[j])
    /\ \A i, j \in 1..Len(shopping_list.categories) :
           i < j => StrRank(shopping_list.categories[i]) < StrRank(shopping_list.categories[j])
    /\ {shopping_list.categories[i] : i \in 1..Len(shopping_list.categories)} =
           {shopping_list.items[i].category[1] :
               i \in {k \in 1..Len(shopping_list.items) :
                         shopping_list.items[k].category # None}}

\* C19: in every list returned by generate_from_date_range with the default
\* grouping, by generate_from_recipes and by add_custom_item the items are in
\* ascending order of (category, ingredient_name), every item without a
\* category after all items with one whatever the categories are called, and
\* categories is the ascending, duplicate-free list of the non-null
\* categories of the items.
C19_OutputOrdering ==
    /\ (IsGenerated /\ ret.raised = ""
            /\ (call.op = "generate_from_recipes" \/ call.group_by_category))
           => OutputOrdered(ReturnedList)
    /\ (call.op = "add_custom_item" /\ ret # Pending /\ ret.raised = "")
           => OutputOrdered(ReturnedList)

-----------------------------------------------------------------------------
(* SpecCustom: custom items added, one after the other, to a generated     *)
(* list and to the lists made of it                                        *)

MaxCustom == 3       \* calls of add_custom_item

\* item_name, quantity, unit, category, notes
CustomSpace ==
    { <<"Napkins", 3, "pack", None, Some("large")>>,
      <<"Napkins", 3, "pack", Some("Bakery"), None>>,
      <<"Napkins", 1, "pack", Some("Dairy"), None>>,
      <<"Milk", 1, "l", Some("Dairy"), None>>,
      <<"Milk", 1, "l", None, None>> }

\* the ShoppingList objects made so far
ShoppingLists(h) == {a \in 1..Len(h) : h[a].type = "ShoppingList"}

\* the list of no recipe, of pancakes, of porridge or of both has been
\* generated and returned
InitCustom ==
    /\ recipes = ShoppingRecipes
    /\ ingredients = ShoppingIngredients
    /\ recipe_ingredients = ShoppingLines
    /\ plans = <<>>
    /\ goals_file = None
    /\ \E recipe_ids \in {<<>>, <<1>>, <<2>>, <<1, 2>>} :
           /\ call = [op |-> "generate_from_recipes", recipe_ids |-> recipe_ids,
                      servings_per_recipe |-> None]
           /\ heap = NewShoppingList(<<>>,
                         generate_from_recipes(recipe_ids, None, <<1, 2, 3>>, 0)).heap
           /\ ret = Returned(Some(3))

AddCustomItem ==
    /\ Cardinality(ShoppingLists(heap)) <= MaxCustom
    /\ \E shopping_list \in ShoppingLists(heap), custom \in CustomSpace :
           LET made == add_custom_item(heap, shopping_list, custom[1], custom[2],
                                       custom[3], custom[4], custom[5])
           IN  /\ call' = [op |-> "add_custom_item", shopping_list |-> shopping_list,
                           item_name |-> custom[1], quantity |-> custom[2],
                           unit |-> custom[3], category |-> custom[4],
                           notes |-> custom[5]]
               /\ heap' = made.heap
               /\ ret' = Returned(Some(made.addr))
    /\ UNCHANGED <<recipes, ingredients, recipe_ingredients, plans, goals_file>>

NextCustom == AddCustomItem

SpecCustom == InitCustom /\ [][NextCustom]_vars

-----------------------------------------------------------------------------
(* Properties of add_custom_item                                           *)

\* C20: add_custom_item leaves the list handed over as it was: its items
\* (the same elements in the same order, the same length), its categories,
\* its start_date, end_date, total_recipes and total_meals; and so it leaves
\* every list made before, whatever sequence of calls made them.
C20_InputListUnchanged ==
    [][ call'.op = "add_custom_item" =>
            /\ ShoppingLists(heap) \subseteq ShoppingLists(heap')
            /\ \A shopping_list \in ShoppingLists(heap) :
                   ReadShoppingList(heap', shopping_list) =
                       ReadShoppingList(heap, shopping_list) ]_vars

\* a list that is itself the result of add_custom_item is handed over and
\* gains an item of a new category that sorts first: the result has one
\* more item and one more category, the list handed over reads as before
C20_Witness ==
    /\ call.op = "add_custom_item"
    /\ ret.raised = ""
    /\ call.shopping_list > 3
    /\ call.category = Some("Bakery")
    /\ ReadShoppingList(heap, call.shopping_list).categories = <<"Dairy">>
    /\ ReturnedList.categories = <<"Bakery", "Dairy">>
    /\ ReturnedList.items[1].ingredient_id = -1
    /\ Len(ReturnedList.items) = Len(ReadShoppingList(heap, call.shopping_list).items) + 1
    /\ ReadShoppingList(heap, call.shopping_list).items[1].ingredient_name = "Milk"


\* how many times x occurs in the list xs
Occurrences(xs, x) == Cardinality({i \in 1..Len(xs) : xs[i] = x})

\* the list handed over to the add_custom_item that has just returned
InputList == ReadShoppingList(heap, call.shopping_list)

\* the item that add_custom_item is asked to add
CustomItem ==
    ShoppingListItem(-1, call.item_name, call.category, call.quantity, call.unit,
                     <<>>, call.notes)

\* C21: the list returned by add_custom_item has the items of the list handed
\* over and one more, the item of id -1 with the given name, quantity, unit,
\* category and notes; its categories are ascending and are those of the
\* list handed over and the new category when that is non-empty; its items
\* are in the output order (ascending by (category, ingredient_name), an
\* item without a category after every item with one); start_date,
\* end_date, total_recipes and total_meals are those of the list handed
\* over.
C21_AddCustomItemResult ==
    (call.op = "add_custom_item" /\ ret # Pending /\ ret.raised = "") =>
        /\ Len(ReturnedList.items) = Len(InputList.items) + 1
        /\ \A i \in 1..Len(ReturnedList.items) :
               Occurrences(ReturnedList.items, ReturnedList.items[i]) =
                   Occurrences(InputList.items, ReturnedList.items[i])
                       + (IF ReturnedList.items[i] = CustomItem THEN 1 ELSE 0)
        /\ Occurrences(ReturnedList.items, CustomItem) >= 1
        /\ \A i, j \in 1..Len(ReturnedList.categories) :
               i < j => StrRank(ReturnedList.categories[i]) < StrRank(ReturnedList.categories[j])
        /\ {ReturnedList.categories[i] : i \in 1..Len(ReturnedList.categories)} =
               {InputList.categories[i] : i \in 1..Len(InputList.categories)}
                   \cup (IF Truthy(call.category) THEN {call.category[1]} ELSE {})
        /\ \A i, j \in 1..Len(ReturnedList.items) :
               i < j => InOutputOrder(ReturnedList.items[i], ReturnedList.items[j])
        /\ ReturnedList.start_date = InputList.start_date
        /\ ReturnedList.end_date = InputList.end_date
        /\ ReturnedList.total_recipes = InputList.total_recipes
        /\ ReturnedList.total_meals = InputList.total_meals


-----------------------------------------------------------------------------
(* Rounding and aggregation                                                *)

\* the plans of the days start_date .. end_date whose recipe has a row
ResolvableIn(start_date, end_date) ==
    {p \in PlanRows : start_date <= p.date /\ p.date <= end_date /\ Resolvable(p)}

\* C22: each component of the total_nutrition that analyze_period_nutrition
\* returns is the exact sum of the unrounded resolved nutrition of the
\* entries of the period, rounded to one decimal once: no value of an entry
\* or of a day is rounded before it is added.
C22_PeriodTotalRoundedOnce ==
    (IsPeriod /\ ret # Pending /\ call.start_date <= call.end_date) =>
        ret.value[1].total_nutrition =
            to_dict(SumResolved(ResolvableIn(call.start_date, call.end_date)))


-----------------------------------------------------------------------------
(* The lines that _calculate_from_ingredients skips                        *)

\* the lines of a recipe that contribute: the ingredient has a row and its
\* calories per 100 g are present, be they 0
ContributingLines(recipe_id) ==
    {row \in recipe_ingredients :
        /\ row.recipe_id = recipe_id
        /\ row.ingredient_id \in DOMAIN ingredients
        /\ ingredients[row.ingredient_id].per_100g.calories # None}

\* nutrition_per_100g * quantity / 100 of a line, an absent component as 0
LineContribution(row) ==
    NutritionData_mul(
        NutritionData([f \in Fields |-> OrZero(ingredients[row.ingredient_id].per_100g[f])]),
        Q(row.quantity, 100))

RECURSIVE SumContributions(_)
SumContributions(rows) ==
    IF rows = {} THEN NutritionData0
    ELSE LET row == CHOOSE r \in rows : TRUE
         IN  NutritionData_add(SumContributions(rows \ {row}), LineContribution(row))

\* the recipe of the call is resolved from its ingredient lines
IngredientDerived ==
    /\ HasReturned("analyze_recipe")
    /\ ret.raised = ""
    /\ call.recipe_id \in DOMAIN recipes
    /\ OrZero(recipes[call.recipe_id].own.calories) = 0
    /\ IngredientData(call.recipe_id) # {}

\* C23: when a recipe is resolved from its ingredient lines, a line is
\* skipped exactly when its ingredient is missing or the ingredient's
\* calories per 100 g are absent; every other line, also one whose
\* ingredient has calories 0 and sodium, adds nutrition_per_100g *
\* quantity / 100 in all seven components.
C23_SkippedLinesAreTheAbsentOnes ==
    IngredientDerived =>
        NDEq(ret.value[1],
             NutritionData_mul(SumContributions(ContributingLines(call.recipe_id)),
                               Q(call.servings, BaseServings(recipes[call.recipe_id]))))


-----------------------------------------------------------------------------
(* ShoppingListGenerator.calculate_shopping_list_nutrition                 *)

\* the keys of the dictionary total_nutrition
NutritionKeys == {"calories", "protein", "carbs", "fat", "fiber", "sodium"}

\* "if ingredient.x_per_100g: total_nutrition[x] += ingredient.x_per_100g *
\* quantity_factor", counted in hundredths (quantity_factor is
\* total_quantity / 100.0)
AddPer100g(total, per_100g, total_quantity) ==
    IF Falsy(per_100g) THEN total ELSE total + per_100g[1] * total_quantity

\* the loop "for item in shopping_list.items" over the first k items: the
\* dictionary total_nutrition in hundredths
RECURSIVE LoopItems(_, _)
LoopItems(items, k) ==
    IF k = 0 THEN [f \in NutritionKeys |-> 0]
    ELSE IF items[k].ingredient_id = -1 \/ items[k].ingredient_id \notin DOMAIN ingredients
    THEN LoopItems(items, k - 1)
    ELSE [f \in NutritionKeys |->
             AddPer100g(LoopItems(items, k - 1)[f],
                        ingredients[items[k].ingredient_id].per_100g[f],
                        items[k].total_quantity)]

\* the returned dictionary: every value rounded to one decimal (in tenths)
RoundValues(total_nutrition) ==
    [f \in NutritionKeys |-> Round1(total_nutrition[f], 100)]

calculate_shopping_list_nutrition(shopping_list) ==
    RoundValues(LoopItems(shopping_list.items, Len(shopping_list.items)))

-----------------------------------------------------------------------------
(* IngredientManager.delete_ingredient                                     *)

\* session.delete(ingredient): the row goes and, the relationship to Recipe
\* being a many-to-many one, so do its rows of the association table
delete_ingredient(ingredient_id) ==
    IF ingredient_id \notin DOMAIN ingredients
    THEN [found |-> FALSE, ingredients |-> ingredients,
          recipe_ingredients |-> recipe_ingredients]
    ELSE [found |-> TRUE,
          ingredients |-> [i \in DOMAIN ingredients \ {ingredient_id} |-> ingredients[i]],
          recipe_ingredients |->
              {row \in recipe_ingredients : row.ingredient_id # ingredient_id}]

-----------------------------------------------------------------------------
(* SpecNutrition: a shopping list is generated from recipes and may gain a *)
(* custom item; its nutrition is asked for, before and after ingredients   *)
(* are deleted from the catalogue                                          *)

\* the heap once the custom items are added, one after the other, each to
\* the list made last
RECURSIVE HeapWithCustoms(_, _)
HeapWithCustoms(h, customs) ==
    IF customs = <<>> THEN h
    ELSE HeapWithCustoms(
             add_custom_item(h, Len(h), customs[1][1], customs[1][2], customs[1][3],
                             customs[1][4], customs[1][5]).heap,
             Tail(customs))

InitNutrition ==
    /\ recipes = ShoppingRecipes
    /\ ingredients = ShoppingIngredients
    /\ recipe_ingredients = ShoppingLines
    /\ plans = <<>>
    /\ goals_file = None
    /\ \E recipe_ids \in {<<>>, <<1>>, <<2>>, <<1, 2>>},
          customs \in {<<>>} \cup {<<c>> : c \in CustomSpace} :
           /\ call = [op |-> "generate_from_recipes", recipe_ids |-> recipe_ids,
                      servings_per_recipe |-> None]
           /\ heap = HeapWithCustoms(
                         NewShoppingList(<<>>,
                             generate_from_recipes(recipe_ids, None, <<1, 2, 3>>, 0)).heap,
                         customs)
           /\ ret = Returned(Some(Len(heap)))

DeleteIngredient ==
    /\ \E ingredient_id \in DOMAIN ShoppingIngredients :
           /\ call' = [op |-> "delete_ingredient", ingredient_id |-> ingredient_id]
           /\ ingredients' = delete_ingredient(ingredient_id).ingredients
           /\ recipe_ingredients' = delete_ingredient(ingredient_id).recipe_ingredients
           /\ ret' = Returned(Some(delete_ingredient(ingredient_id).found))
    /\ UNCHANGED <<heap, recipes, plans, goals_file>>

CalculateShoppingListNutrition ==
    /\ \E shopping_list \in ShoppingLists(heap) :
           /\ call' = [op |-> "calculate_shopping_list_nutrition",
                       shopping_list |-> shopping_list]
           /\ ret' = Returned(Some(calculate_shopping_list_nutrition(
                                       ReadShoppingList(heap, shopping_list))))
    /\ UNCHANGED <<heap, recipes, ingredients, recipe_ingredients, plans, goals_file>>

NextNutrition == DeleteIngredient \/ CalculateShoppingListNutrition

SpecNutrition == InitNutrition /\ [][NextNutrition]_vars

-----------------------------------------------------------------------------
(* Properties of calculate_shopping_list_nutrition                         *)

\* what _calculate_from_ingredients adds up for one line of the item's
\* ingredient with the quantity total_quantity, before the division by the
\* servings; nothing for an item of id -1 or of an ingredient without a row
ResolverContribution(item) ==
    IF item.ingredient_id = -1 \/ item.ingredient_id \notin DOMAIN ingredients
    THEN NutritionData0
    ELSE LoopIngredientData({[recipe_id |-> 0, ingredient_id |-> item.ingredient_id,
                              quantity |-> item.total_quantity, unit |-> item.unit]})

RECURSIVE SumResolverContributions(_, _)
SumResolverContributions(items, k) ==
    IF k = 0 THEN NutritionData0
    ELSE NutritionData_add(SumResolverContributions(items, k - 1),
                           ResolverContribution(items[k]))

\* C24: the nutrition of a shopping list is, in each component it reports,
\* the sum over the items of what the ingredient derivation of the recipe
\* resolver contributes for a line of the same ingredient with the quantity
\* total_quantity, rounded to one decimal; an item of id -1 and an item
\* whose ingredient has no row contribute nothing.
C24_SamePer100gRuleAsResolver ==
    (call.op = "calculate_shopping_list_nutrition" /\ ret.raised = "") =>
        \A f \in NutritionKeys :
            ret.value[1][f] =
                to_dict(SumResolverContributions(
                            ReadShoppingList(heap, call.shopping_list).items,
                            Len(ReadShoppingList(heap, call.shopping_list).items)))[f]


-----------------------------------------------------------------------------
(* The goal type "custom" of create_goals_from_template                    *)

\* the ratios, the fiber and the sodium ceiling that the caller of
\* create_goals_from_template has supplied
SuppliedKeys ==
    {k \in RatioKeys :
        \/ k = "protein_ratio" /\ call.ratios[1] # None
        \/ k = "carbs_ratio" /\ call.ratios[2] # None
        \/ k = "fat_ratio" /\ call.ratios[3] # None}
        \cup (DOMAIN call.extra \cap {"daily_fiber", "daily_sodium_max"})

\* C25: create_goals_from_template with the goal type "custom" uses no
\* template: a ratio, a fiber value or a sodium ceiling that the caller does
\* not supply is not filled in with a default; the call fails or leaves the
\* value unset.
C25_CustomHasNoDefaults ==
    (call.op = "create_goals_from_template" /\ call.goal_type = "custom") =>
        \/ ret.raised # ""
        \/ \A k \in (RatioKeys \cup {"daily_fiber", "daily_sodium_max"}) \ SuppliedKeys :
               ret.value[1][k] = None


-----------------------------------------------------------------------------
(* The unit of an aggregated item                                          *)

\* the orders in which the contributing entries may be processed, as
\* sequences of recipe ids: the recipe ids as handed over, or the plans of
\* the range in any order the query returns them
ProcessingOrders ==
    IF call.op = "generate_from_recipes" THEN {call.recipe_ids}
    ELSE {[k \in 1..Len(order) |-> ContributingEntries[order[k]].recipe_id] :
             order \in Orderings(DOMAIN ContributingEntries)}

\* the lines of a recipe for an ingredient: one at most
LinesFor(recipe_id, ingredient_id) ==
    {row \in recipe_ingredients :
        row.recipe_id = recipe_id /\ row.ingredient_id = ingredient_id}

\* the unit of the first line for the ingredient in a processing order,
\* 'units' when that line has none
UnitOfFirstLineIn(order, ingredient_id) ==
    LET first == CHOOSE k \in 1..Len(order) :
                     /\ LinesFor(order[k], ingredient_id) # {}
                     /\ \A j \in 1..(k - 1) : LinesFor(order[j], ingredient_id) = {}
        line == CHOOSE row \in LinesFor(order[first], ingredient_id) : TRUE
    IN  IF line.unit = None \/ line.unit[1] = "" THEN "units" ELSE line.unit[1]

\* C26: the unit of every item of a generated list is the unit of the first
\* line processed for its ingredient, 'units' when that line has no unit;
\* the lines processed later, whatever their unit, leave the unit as it is
\* and are added into total_quantity without conversion.
C26_UnitOfFirstLineKept ==
    (IsGenerated /\ ret.raised = "") =>
        \E order \in ProcessingOrders :
            \A i \in 1..Len(ReturnedList.items) :
                /\ ReturnedList.items[i].unit =
                       UnitOfFirstLineIn(order, ReturnedList.items[i].ingredient_id)
                /\ ReturnedList.items[i].total_quantity =
                       SumOfEntries(ContributingEntries, DOMAIN ContributingEntries,
                                    ReturnedList.items[i].ingredient_id)

\* porridge (50 g of milk) is processed before pancakes (100 ml of milk and
\* salt without a unit): milk is in g and totals 150, salt is in 'units'
C26_Witness ==
    /\ IsGenerated
    /\ ret.raised = ""
    /\ call.op = "generate_from_recipes"
    /\ call.recipe_ids = <<2, 1>>
    /\ call.servings_per_recipe = None
    /\ \E i, j \in 1..Len(ReturnedList.items) :
           /\ ReturnedList.items[i].ingredient_name = "Milk"
           /\ ReturnedList.items[i].unit = "g"
           /\ ReturnedList.items[i].total_quantity = 150
           /\ ReturnedList.items[j].ingredient_name = "Salt"
           /\ ReturnedList.items[j].unit = "units"


-----------------------------------------------------------------------------
(* The range of the scores of calculate_progress                           *)

\* C27: every per-nutrient sub-score and the overall_score of
\* calculate_progress lie between 0 and 100, so that a nutrient above 120%
\* of its target never scores more than one inside the band of 80% to 120%.
C27_ScoresWithinZeroAndHundred ==
    (HasReturned("calculate_progress") /\ ret.raised = "") =>
        /\ 0 <= ret.value[1].overall_score
        /\ ret.value[1].overall_score <= 1000
        /\ \A k \in DOMAIN ret.value[1].progress :
               /\ QLe(QInt(0), Score(k, ret.value[1].progress[k].percentage))
               /\ QLe(Score(k, ret.value[1].progress[k].percentage), QInt(100))


-----------------------------------------------------------------------------
(* Status and sub-score of calculate_progress                              *)

\* C28: the status and the sub-score of every entry of calculate_progress
\* agree: the sub-score of a nutrient other than sodium is 100 exactly when
\* its status is 'good' or 'excellent', that of sodium exactly when its
\* status is 'good'.
C28_StatusAndScoreAgree ==
    (HasReturned("calculate_progress") /\ ret.raised = "") =>
        \A k \in DOMAIN ret.value[1].progress :
            QEq(Score(k, ret.value[1].progress[k].percentage), QInt(100))
                <=> (ret.value[1].progress[k].status \in
                         (IF k = "sodium" THEN {"good"} ELSE {"good", "excellent"}))


-----------------------------------------------------------------------------
(* days_with_data of analyze_weekly_progress                               *)

\* the days of the week of the call that have a meal-plan entry
DaysWithEntries ==
    {d \in call.start_date .. WeekEnd(call.start_date) : EntriesOn(d) # {}}

\* C29: days_with_data of analyze_weekly_progress counts only days that
\* have data: a day of the week without a meal-plan entry is never counted,
\* whatever the goals are, a sodium ceiling included.
C29_DaysWithDataHaveEntries ==
    (HasReturned("analyze_weekly_progress") /\ ret.raised = "") =>
        /\ ret.value[1].days_with_data <= Cardinality(DaysWithEntries)
        /\ \A i \in 1..Len(ret.value[1].daily_progresses) :
               ret.value[1].daily_progresses[i].overall_score > 0
                   => ret.value[1].daily_progresses[i].date \in DaysWithEntries


-----------------------------------------------------------------------------
(* MealPlanner: delete_meal_plan, complete_meal, clear_schedule, plan_week *)

\* MealPlanner.delete_meal_plan
delete_meal_plan(plan_id) ==
    /\ call' = [op |-> "delete_meal_plan", plan_id |-> plan_id]
    /\ plans' = SelectSeq(plans, LAMBDA p : p.id # plan_id)
    /\ ret' = Returned(Some(plan_id \in PlanIds))
    /\ UNCHANGED <<heap, recipes, ingredients, recipe_ingredients, goals_file>>

\* MealPlanner.complete_meal: update_meal_plan with {'completed': completed}
complete_meal(plan_id, completed) ==
    update_meal_plan(plan_id, [completed |-> completed])

\* the rows that the query of clear_schedule selects; meal_type is Optional
SelectedToClear(p, start_date, end_date, meal_type) ==
    /\ start_date <= p.date
    /\ p.date <= end_date
    /\ (meal_type # None => p.meal_type = meal_type[1])

\* the table once clear_schedule has deleted the rows it selects
Cleared(table, start_date, end_date, meal_type) ==
    SelectSeq(table, LAMBDA p : ~SelectedToClear(p, start_date, end_date, meal_type))

\* MealPlanner.clear_schedule; end_date is Optional and defaults to start_date
clear_schedule(start_date, end_date, meal_type) ==
    /\ call' = [op |-> "clear_schedule", start_date |-> start_date,
                end_date |-> end_date, meal_type |-> meal_type]
    /\ plans' = Cleared(plans, start_date,
                        IF end_date = None THEN start_date ELSE end_date[1], meal_type)
    /\ ret' = Returned(Some(Len(plans) - Len(plans')))
    /\ UNCHANGED <<heap, recipes, ingredients, recipe_ingredients, goals_file>>

\* MealPlanner.schedule_meal as plan_week calls it, on the table the calls
\* before it have left: the table after the call; a MealPlanningError is
\* caught and leaves the table as it is
ScheduledInto(table, target_date, meal_type, recipe_id, allow_conflicts) ==
    IF recipe_id \notin DOMAIN recipes THEN table
    ELSE IF /\ ~allow_conflicts
            /\ \E i \in 1..Len(table) :
                   table[i].date = target_date /\ table[i].meal_type = meal_type
    THEN table
    ELSE Append(table,
                create_plan(IF table = <<>> THEN 1 ELSE table[Len(table)].id + 1,
                            target_date, meal_type, recipe_id, 1))

\* the keys "<day>_<meal type>" in the order plan_week looks them up: the
\* days from monday on, the members of MealType in the order of definition
WeekKeys ==
    [k \in 1..28 |->
        [day_offset |-> (k - 1) \div 4,
         meal_type |-> <<"breakfast", "lunch", "dinner", "snack">>[((k - 1) % 4) + 1]]]

\* the two loops of plan_week over the first k keys
RECURSIVE LoopWeek(_, _, _, _, _)
LoopWeek(table, start_date, recipe_assignments, clear_existing, k) ==
    IF k = 0 THEN table
    ELSE LET before == LoopWeek(table, start_date, recipe_assignments,
                                clear_existing, k - 1)
         IN  IF WeekKeys[k] \in DOMAIN recipe_assignments
             THEN ScheduledInto(before, start_date + WeekKeys[k].day_offset,
                                WeekKeys[k].meal_type,
                                recipe_assignments[WeekKeys[k]], clear_existing)
             ELSE before

\* the table that plan_week leaves
PlannedWeek(start_date, recipe_assignments, clear_existing) ==
    LoopWeek(IF clear_existing THEN Cleared(plans, start_date, start_date + 6, None)
             ELSE plans,
             start_date, recipe_assignments, clear_existing, 28)

\* MealPlanner.plan_week: returns the plans it has created
plan_week(start_date, recipe_assignments, clear_existing) ==
    /\ call' = [op |-> "plan_week", start_date |-> start_date,
                recipe_assignments |-> recipe_assignments,
                clear_existing |-> clear_existing]
    /\ plans' = PlannedWeek(start_date, recipe_assignments, clear_existing)
    /\ ret' = Returned(Some(SelectSeq(plans', LAMBDA p : p \notin PlanRows)))
    /\ UNCHANGED <<heap, recipes, ingredients, recipe_ingredients, goals_file>>

-----------------------------------------------------------------------------
(* SpecPlanner: a schedule, empty at first, changed by the operations of   *)
(* MealPlanner; schedule_meal is called without allow_conflicts            *)

MaxPlanId == 3       \* ids handed out by the plans table

\* updates dictionaries: another date, another meal type, another recipe
SlotUpdates ==
    {[date |-> d] : d \in Dates} \cup {[meal_type |-> m] : m \in MealTypeSpace}
        \cup {[recipe_id |-> 2]}

\* recipe_assignments of plan_week: monday and tuesday, breakfast and dinner
AssignmentSpace ==
    LET keys == {[day_offset |-> d, meal_type |-> m] : d \in {0, 1}, m \in MealTypeSpace}
    IN  UNION {[chosen -> {1, MissingId}] :
                  chosen \in {c \in SUBSET keys : Cardinality(c) \in 1..2}}

ScheduleMealNoConflicts ==
    /\ Len(plans) < MaxPlans
    /\ NextPlanId <= MaxPlanId
    /\ \E target_date \in Dates, meal_type \in MealTypeSpace, recipe_id \in {1, MissingId} :
           schedule_meal(target_date, meal_type, recipe_id, 1, FALSE)

UpdateMealPlanSlot ==
    \E plan_id \in PlanIds \cup {MissingId}, updates \in SlotUpdates :
        update_meal_plan(plan_id, updates)

CompleteMeal ==
    \E plan_id \in PlanIds \cup {MissingId}, completed \in BOOLEAN :
        complete_meal(plan_id, completed)

DeleteMealPlan ==
    \E plan_id \in PlanIds \cup {MissingId} : delete_meal_plan(plan_id)

ClearSchedule ==
    \E start_date \in Dates, end_date \in {None} \cup {Some(d) : d \in Dates},
       meal_type \in {None} \cup {Some(m) : m \in MealTypeSpace} :
        clear_schedule(start_date, end_date, meal_type)

PlanWeek ==
    \E recipe_assignments \in AssignmentSpace, clear_existing \in BOOLEAN :
        /\ plan_week(0, recipe_assignments, clear_existing)
        /\ Len(plans') <= MaxPlans
        /\ \A i \in 1..Len(plans') : plans'[i].id <= MaxPlanId

NextPlanner ==
    \/ ScheduleMealNoConflicts
    \/ UpdateMealPlanSlot
    \/ CompleteMeal
    \/ DeleteMealPlan
    \/ ClearSchedule
    \/ PlanWeek

SpecPlanner == Init /\ [][NextPlanner]_vars

-----------------------------------------------------------------------------
(* Meal-slot uniqueness                                                    *)

\* no two plans of the schedule have the same date and meal type
SlotsAreUnique ==
    \A i, j \in 1..Len(plans) :
        (plans[i].date = plans[j].date /\ plans[i].meal_type = plans[j].meal_type)
            => i = j

\* a rejected schedule_meal, of a recipe without a row or into a slot that
\* is taken, raises MealPlanningError and leaves the plans as they are
RejectionLeavesPlans ==
    (/\ call'.op = "schedule_meal"
     /\ \/ call'.recipe_id \notin DOMAIN recipes
        \/ SlotTaken(call'.target_date, call'.meal_type))
        => (ret'.raised = "MealPlanningError" /\ plans' = plans)

\* C30: from an empty schedule on, whatever schedule_meal (without
\* allow_conflicts), update_meal_plan, complete_meal, delete_meal_plan,
\* clear_schedule and plan_week are called, no two plans share a date and a
\* meal type; and a schedule_meal that is rejected raises MealPlanningError
\* and leaves the plans unchanged.
C30_MealSlotUniqueness == []SlotsAreUnique /\ [][RejectionLeavesPlans]_vars

=============================================================================
